---------------------------- MODULE Spec2Model ----------------------------
(***************************************************************************)
(* A model of uSwap Zero (uSwapExchange/zero): the stateless order-token   *)
(* codec (crypto.go), the per-prefix request limiter (main.go), the        *)
(* explorer rate gate (explorer.go) and the competitor monitor             *)
(* (monitor section of main.go).                                           *)
(*                                                                         *)
(* Each subsystem has its own specification over the shared variables:     *)
(*   SpecCodec    encryptOrderData / decryptOrderData / initCrypto         *)
(*   SpecTamper   the same, with altered tokens presented                  *)
(*   SpecLimiter  rateLimiter.allow and its sweep                          *)
(*   SpecAdmission handleQuote and handleSwapConfirm on the limiter        *)
(*   SpecExplorer initExplorerRateLimiter / explorerGet                    *)
(*   SpecMonitor  runResellerPoller, ringBuffer, saveCursor                *)
(*   SpecStats    LiveStats.add / LiveStats.snapshot under the RWMutex     *)
(***************************************************************************)
EXTENDS Integers, Sequences, FiniteSets, TLC

VARIABLES
    \* ---- order codec (crypto.go) ----
    env,        \* ORDER_SECRET of the environment: <<>> when unset, else hex digits
    orderKey,   \* var orderKey []byte (<<>> before initCrypto ran)
    usedKeys,   \* keys rand.Read has already produced (a fresh draw repeats none)
    boots,      \* how many times the process has been started
    issued,     \* the token handed to the user by encryptOrderData, with its record
    presented,  \* the token string a client presents to decryptOrderData
    result      \* what decryptOrderData returned for the presented token

keyVars == <<env, orderKey, usedKeys, boots>>
codecVars == <<keyVars, issued, presented, result>>

VARIABLES
    \* ---- request limiter (main.go) ----
    counters,   \* rl.counters: prefix -> rateBucket (a map: its domain is the keys)
    now,        \* time.Now(), in seconds since the process started
    limCfg,     \* the limit and the window the callers of a run pass to allow
    lastCall,   \* the last call of allow: its arguments, its time and its result
    win,        \* per expected key: the first call and the calls of the current window
    calls       \* how many calls of allow have been made

limVars == <<counters, now, limCfg, lastCall, win, calls>>

VARIABLES
    \* ---- explorer rate gate (explorer.go) ----
    explorerRateCh,  \* tokens in the channel (capacity 1)
    clk,             \* seconds since initExplorerRateLimiter
    tickDue,         \* the ticker has fired and its goroutine has not yet served it
    gpc,             \* per caller of explorerGet: "idle", "waiting" or "sending"
    sinceLast,       \* seconds since the last request was issued (cut at the period)
    lastGap,         \* seconds between the last two requests (cut at the period)
    winStart,        \* start of the observed window
    winCount         \* requests issued in the observed window

expVars == <<explorerRateCh, clk, tickDue, gpc, sinceLast, lastGap, winStart, winCount>>

VARIABLES
    \* ---- competitor monitor (monitor section of main.go) ----
    explorerLen,    \* per poller: how many transactions of its affiliate the explorer has
    cursors,        \* the cursorFile runMonitor loaded and handed to every poller
    diskCursors,    \* the cursors in data/monitor_state.json (a map: its domain is the keys)
    monitorLogBuf,  \* monitorLogBuf.entries, most recent first
    monitorStats,   \* monitorStats: affiliate -> LiveStats
    cards,          \* per poller: the cards posted to its thread, in order
    ppc,            \* per poller: where runResellerPoller stands
    cursor,         \* per poller: its local cursor
    txs,            \* per poller: the batch of the last successful fetch
    ti,             \* per poller: index in txs of the transaction being applied
    titleCounter,   \* per poller: its titleCounter
    cf,             \* per poller: the cursorFile saveCursor has loaded
    before          \* per poller: the affiliate's stats when the batch was fetched

monVars == <<explorerLen, cursors, diskCursors, monitorLogBuf, monitorStats, cards,
             ppc, cursor, txs, ti, titleCounter, cf, before>>

VARIABLES
    \* ---- one LiveStats under its RWMutex (main.go) ----
    liveStats,   \* the fields FeeUSD, VolumeUSD, SwapCount
    mu,          \* s.mu: w = a writer holds it, r = the number of readers holding it
    spc,         \* per goroutine: where it stands in add or in snapshot
    sargs,       \* per goroutine: the arguments of its call of add
    sread,       \* per goroutine: the fields its snapshot has read so far
    snap,        \* per goroutine: what its last snapshot returned
    completed,   \* the states of the stats after each completed add
    nAdds        \* how many calls of add have been made

statVars == <<liveStats, mu, spc, sargs, sread, snap, completed, nAdds>>

VARIABLES
    \* ---- one ringBuffer under its RWMutex (main.go) ----
    rbEntries,   \* rb.entries, most recent first; an entry is the number of its add
    rbMu,        \* rb.mu is held by a writer
    rbPc,        \* per poller: where it stands in ringBuffer.add
    rbAdds       \* how many adds have prepended their entry

ringVars == <<rbEntries, rbMu, rbPc, rbAdds>>

VARIABLES
    \* ---- the token cache under its RWMutex (tokencache.go) ----
    cache,       \* cache.tokens, byAssetID, networks, updatedAt; each field is tagged
                 \* with the number of the upstream fetch it was built from
    cmu,         \* cache.mu: w = a writer holds it, r = the number of readers holding it
    cnow,        \* the clock, in minutes
    ctick,       \* the refresher's ticker channel holds a tick
    fetches,     \* how many calls of fetchTokens have returned
    cop,         \* per activity: the operation it is running
    apc,         \* per activity: where it stands in that operation
    built,       \* per activity: the snapshot its refreshTokenCache has built
    seen,        \* per activity: the fetches whose fields it has read under its RLock
    ret          \* per activity: what its last operation returned

cacheVars == <<cache, cmu, cnow, ctick, fetches, cop, apc, built, seen, ret>>

VARIABLES
    \* ---- a status query for one order (handleOrder, handleTGStatus, ----
    \* ---- handleTGRefreshStatus)                                     ----
    upstreamStatus,   \* the status the upstream holds for the order
    opc,              \* where the query stands
    oentry,           \* the entry point that is answering
    ofetch,           \* what fetchStatus returned
    oresp             \* the last answer sent

orderVars == <<upstreamStatus, opc, oentry, ofetch, oresp>>

VARIABLES
    \* ---- the swap flow: forms, conversions, CSRF tokens (part_002, ----
    \* ---- tgorder.go, amount.go, crypto.go)                         ----
    swNow,       \* time.Now(), in seconds
    minted,      \* the CSRF tokens the pages have handed out: form, time, token
    sess,        \* the tgSession of one chat
    swCall,      \* the last call or request: which function or handler, its inputs
    swRet        \* what it returned or did: results, the request sent upstream, ...

swapVars == <<swNow, minted, sess, swCall, swRet>>

VARIABLES
    \* ---- the schedule of the monitor: runMonitor, the loop of ----
    \* ---- runResellerPoller, the wait in explorerGet (main.go) ----
    rmI,         \* runMonitor: the reseller its loop will start next (from 1)
    rmWake,      \* runMonitor: when its time.Sleep ends
    lpc,         \* per poller: "off", "start", "fetching", "sleep" or "backoff"
    wake,        \* per poller: when its time.Sleep ends (its start, for "start"),
                 \* and once its request is out, when the answer is due at the latest
    firstFetch,  \* per poller: when it first called fetchExplorerTxs (-1: not yet)
    waitFrom,    \* per poller: when it began to wait on explorerRateCh
    waited       \* per poller: how long its last wait on explorerRateCh took

schedVars == <<rmI, rmWake, lpc, wake, firstFetch, waitFrom, waited>>
VARIABLES
    \* ---- what the limiter's callers saw ----
    admittedAt,  \* per expected key: the times of the calls allow answered true, in order
    unswept,     \* the buckets of a limiter that got the same calls and is never swept
    unsweptOk,   \* what that limiter answered to the last call
    swept        \* the prefixes whose bucket a sweep has deleted

slideVars == <<admittedAt, unswept, unsweptOk, swept>>
VARIABLES
    \* ---- the bot's quote card ----
    quoted       \* the request of the dry quote that brought the session into the
                 \* quote-confirm state it is in; NoQuote in every other state

quoteVars == <<quoted>>
VARIABLES
    \* ---- the receivers blocked on explorerRateCh ----
    recvq        \* the pollers blocked in <-explorerRateCh, in the order they arrived

liveVars == <<recvq>>
VARIABLES
    \* ---- the process ----
    crashes      \* how many times the process has crashed and been started again

vars == <<codecVars, limVars, expVars, monVars, statVars, ringVars, cacheVars, orderVars, swapVars, schedVars, slideVars, quoteVars, liveVars, crashes>>

\* what the actions of one subsystem leave alone
nonCodec == <<limVars, expVars, monVars, statVars, ringVars, cacheVars, orderVars, swapVars, schedVars, slideVars, quoteVars, liveVars, crashes>>
nonLimiter == <<codecVars, expVars, monVars, statVars, ringVars, cacheVars, orderVars, swapVars, schedVars, slideVars, quoteVars, liveVars, crashes>>
nonExplorer == <<codecVars, limVars, monVars, statVars, ringVars, cacheVars, orderVars, swapVars, schedVars, slideVars, quoteVars, liveVars, crashes>>
nonMonitor == <<codecVars, limVars, expVars, statVars, ringVars, cacheVars, orderVars, swapVars, schedVars, slideVars, quoteVars, liveVars, crashes>>
nonStats == <<codecVars, limVars, expVars, monVars, ringVars, cacheVars, orderVars, swapVars, schedVars, slideVars, quoteVars, liveVars, crashes>>
nonProcess == <<codecVars, limVars, expVars, statVars, ringVars, cacheVars, orderVars, swapVars, schedVars, slideVars, quoteVars, liveVars>>
nonRing == <<codecVars, limVars, expVars, monVars, statVars, cacheVars, orderVars, swapVars, schedVars, slideVars, quoteVars, liveVars, crashes>>
nonCache == <<codecVars, limVars, expVars, monVars, statVars, ringVars, orderVars, swapVars, schedVars, slideVars, quoteVars, liveVars, crashes>>
nonOrder == <<codecVars, limVars, expVars, monVars, statVars, ringVars, cacheVars, swapVars, schedVars, slideVars, quoteVars, liveVars, crashes>>
nonSwap == <<codecVars, limVars, expVars, monVars, statVars, ringVars, cacheVars, orderVars, schedVars, slideVars, quoteVars, liveVars, crashes>>

\* a subsystem that takes no part in a specification stays as it is here
LimiterOff ==
    /\ counters = <<>> /\ now = 0 /\ limCfg = <<>> /\ lastCall = <<>>
    /\ win = <<>> /\ calls = 0

ExplorerOff ==
    /\ explorerRateCh = 0 /\ clk = 0 /\ tickDue = FALSE /\ gpc = <<>>
    /\ sinceLast = 0 /\ lastGap = 0 /\ winStart = 0 /\ winCount = 0

MonitorOff ==
    /\ explorerLen = <<>> /\ cursors = <<>> /\ diskCursors = <<>>
    /\ monitorLogBuf = <<>> /\ monitorStats = <<>> /\ cards = <<>> /\ ppc = <<>>
    /\ cursor = <<>> /\ txs = <<>> /\ ti = <<>> /\ titleCounter = <<>>
    /\ cf = <<>> /\ before = <<>>

StatsOff ==
    /\ liveStats = <<>> /\ mu = <<>> /\ spc = <<>> /\ sargs = <<>>
    /\ sread = <<>> /\ snap = <<>> /\ completed = {} /\ nAdds = 0

ScheduleOff ==
    /\ rmI = 0 /\ rmWake = 0 /\ lpc = <<>> /\ wake = <<>>
    /\ firstFetch = <<>> /\ waitFrom = <<>> /\ waited = <<>>

SlidingOff == admittedAt = <<>> /\ unswept = <<>> /\ unsweptOk = FALSE /\ swept = {}

ConfirmOff == quoted = <<>>

LiveOff == recvq = <<>>

SwapOff == swNow = 0 /\ minted = {} /\ sess = <<>> /\ swCall = <<>> /\ swRet = <<>>

NeverCrashed == crashes = 0

RingOff == rbEntries = <<>> /\ rbMu = FALSE /\ rbPc = <<>> /\ rbAdds = 0

OrderOff ==
    upstreamStatus = <<>> /\ opc = "" /\ oentry = "" /\ ofetch = <<>> /\ oresp = <<>>

CacheOff ==
    /\ cache = <<>> /\ cmu = [w |-> FALSE, r |-> 0] /\ cnow = 0 /\ ctick = FALSE
    /\ fetches = 0 /\ cop = <<>> /\ apc = <<>> /\ built = <<>> /\ seen = <<>>
    /\ ret = <<>>

CodecOff ==
    /\ env = <<>> /\ orderKey = <<>> /\ usedKeys = {} /\ boots = 0
    /\ issued = <<>> /\ presented = <<>> /\ result = <<>>

(***************************************************************************)
(* Text.  A Go string is modelled as the sequence of its characters, each  *)
(* a one-character string; Ord gives the byte of a character.              *)
(***************************************************************************)
CharTable ==
    << <<"{", 123>>, <<"}", 125>>, <<"\"", 34>>, <<":", 58>>, <<",", 44>>,
       <<"\\", 92>>, <<"<", 60>>, <<"\n", 10>>, <<"u", 117>>, <<"0", 48>>,
       <<"3", 51>>, <<"c", 99>>, <<"n", 110>>, <<"d", 100>>, <<"m", 109>>,
       <<"f", 102>>, <<"t", 116>>, <<"a", 97>>, <<"i", 105>>, <<"o", 111>>,
       <<"l", 108>>, <<"1", 49>>, <<"x", 120>>, <<"E", 69>>, <<"T", 84>>,
       <<"H", 72>>, <<".", 46>>, <<"e", 101>>, <<"h", 104>>, <<"2", 50>>,
       <<"4", 52>>, <<"5", 53>>, <<"6", 54>>, <<"7", 55>>, <<"8", 56>>,
       <<"9", 57>>, <<"U", 85>>, <<"S", 83>>, <<"D", 68>>, <<"B", 66>>,
       <<"C", 67>>, <<"b", 98>>, <<"s", 115>> >>

Chars == { CharTable[i][1] : i \in 1..Len(CharTable) }

Ord(c) == LET i == CHOOSE k \in 1..Len(CharTable) : CharTable[k][1] = c
          IN  CharTable[i][2]

\* the character of a byte; "?" for a byte outside the table
Chr(b) == IF \E k \in 1..Len(CharTable) : CharTable[k][2] = b
          THEN CharTable[CHOOSE k \in 1..Len(CharTable) : CharTable[k][2] = b][1]
          ELSE "?"

ToBytes(s) == [i \in 1..Len(s) |-> Ord(s[i])]
FromBytes(bs) == [i \in 1..Len(bs) |-> Chr(bs[i])]


(***************************************************************************)
(* OrderData and its JSON form (encoding/json as crypto.go uses it).       *)
(***************************************************************************)
Cat(s, t) == s \o t

\* the JSON key of each field, in declaration order (struct tags of OrderData)
OrderFields ==
    << <<"DepositAddr", <<"d">>>>, <<"Memo", <<"m">>>>,
       <<"FromTicker", <<"f">>>>, <<"FromNet", <<"f", "n">>>>,
       <<"ToTicker", <<"t">>>>, <<"ToNet", <<"t", "n">>>>,
       <<"AmountIn", <<"a", "i">>>>, <<"AmountOut", <<"a", "o">>>>,
       <<"Deadline", <<"d", "l">>>>, <<"CorrID", <<"c">>>> >>

FieldNames == { OrderFields[i][1] : i \in 1..Len(OrderFields) }

\* the zero value of OrderData: every field the empty string
ZeroOrderData == [f \in FieldNames |-> <<>>]

\* json.Marshal's escaping of one character of a string (HTML-safe mode)
EscapeChar(c) ==
    CASE c = "\"" -> <<"\\", "\"">>
      [] c = "\\" -> <<"\\", "\\">>
      [] c = "\n" -> <<"\\", "n">>
      [] c = "<"  -> <<"\\", "u", "0", "0", "3", "c">>
      [] OTHER    -> <<c>>

RECURSIVE EscapeFrom(_, _)
EscapeFrom(s, i) ==
    IF i > Len(s) THEN <<>> ELSE Cat(EscapeChar(s[i]), EscapeFrom(s, i + 1))

JSONQuote(s) == Cat(<<"\"">>, Cat(EscapeFrom(s, 1), <<"\"">>))

\* the member "key":"value" of field k, or nothing for an empty omitempty field
OmitEmpty(k) == OrderFields[k][1] = "Memo"

JSONMember(data, k) ==
    Cat(JSONQuote(OrderFields[k][2]), Cat(<<":">>, JSONQuote(data[OrderFields[k][1]])))

RECURSIVE JSONMembersFrom(_, _, _)
JSONMembersFrom(data, k, first) ==
    IF k > Len(OrderFields) THEN <<>>
    ELSE IF OmitEmpty(k) /\ data[OrderFields[k][1]] = <<>>
         THEN JSONMembersFrom(data, k + 1, first)
         ELSE Cat(IF first THEN <<>> ELSE <<",">>,
                  Cat(JSONMember(data, k), JSONMembersFrom(data, k + 1, FALSE)))

\* json.Marshal(data)
JSONMarshal(data) == Cat(<<"{">>, Cat(JSONMembersFrom(data, 1, TRUE), <<"}">>))

NoParse == [ok |-> FALSE, val |-> <<>>, next |-> 0]

\* the string literal whose opening quote is before position i
RECURSIVE ScanString(_, _, _)
ScanString(s, i, acc) ==
    IF i > Len(s) THEN NoParse
    ELSE IF s[i] = "\"" THEN [ok |-> TRUE, val |-> acc, next |-> i + 1]
    ELSE IF s[i] = "\n" THEN NoParse       \* a raw control character
    ELSE IF s[i] # "\\" THEN ScanString(s, i + 1, Append(acc, s[i]))
    ELSE IF i + 1 > Len(s) THEN NoParse
    ELSE IF s[i + 1] \in {"\"", "\\"} THEN ScanString(s, i + 2, Append(acc, s[i + 1]))
    ELSE IF s[i + 1] = "n" THEN ScanString(s, i + 2, Append(acc, "\n"))
    ELSE IF s[i + 1] = "u" /\ i + 5 <= Len(s)
            /\ SubSeq(s, i + 2, i + 5) = <<"0", "0", "3", "c">>
         THEN ScanString(s, i + 6, Append(acc, "<"))
    ELSE NoParse

\* the field a JSON key sets; keys of no field are skipped
SetField(data, key, val) ==
    IF \E k \in 1..Len(OrderFields) : OrderFields[k][2] = key
    THEN LET k == CHOOSE j \in 1..Len(OrderFields) : OrderFields[j][2] = key
         IN  [data EXCEPT ![OrderFields[k][1]] = val]
    ELSE data

NoData == [ok |-> FALSE, data |-> ZeroOrderData]

\* the members of an object from position i on, up to the closing brace
RECURSIVE ParseMembers(_, _, _)
ParseMembers(s, i, data) ==
    IF i > Len(s) \/ s[i] # "\"" THEN NoData
    ELSE LET key == ScanString(s, i + 1, <<>>) IN
         IF ~key.ok \/ key.next + 1 > Len(s) THEN NoData
         ELSE IF s[key.next] # ":" \/ s[key.next + 1] # "\"" THEN NoData
         ELSE LET val == ScanString(s, key.next + 2, <<>>) IN
              IF ~val.ok \/ val.next > Len(s) THEN NoData
              ELSE LET d2 == SetField(data, key.val, val.val) IN
                   IF s[val.next] = "," THEN ParseMembers(s, val.next + 1, d2)
                   ELSE IF s[val.next] = "}" /\ val.next = Len(s)
                        THEN [ok |-> TRUE, data |-> d2]
                        ELSE NoData

\* json.Unmarshal(plaintext, &data) for an object of string members
JSONUnmarshal(s) ==
    IF Len(s) < 2 \/ s[1] # "{" THEN NoData
    ELSE IF s[2] = "}" THEN (IF Len(s) = 2 THEN [ok |-> TRUE, data |-> ZeroOrderData]
                             ELSE NoData)
    ELSE ParseMembers(s, 2, ZeroOrderData)


(***************************************************************************)
(* AES-256-GCM (crypto/cipher), as the codec uses it.  The cipher is a     *)
(* library: it is modelled as an ideal AEAD over bytes, a keyed length-    *)
(* preserving stream transform followed by a 16-byte authenticator over    *)
(* key, nonce, length and ciphertext (each tag byte a checksum, with odd   *)
(* weights, of every 16th ciphertext byte, so that no single changed byte  *)
(* leaves the tag unchanged).                                              *)
(***************************************************************************)
KeyLen == 32      \* orderKey = decoded[:32]
NonceSize == 12   \* gcm.NonceSize()
Overhead == 16    \* gcm.Overhead(): the tag

Byte(n) == n % 256

KeyStream(key, iv, i) ==
    Byte(key[((i - 1) % KeyLen) + 1] + iv[((i - 1) % NonceSize) + 1] + i)

\* the ciphertext bytes at positions i, i + 16, i + 32, ..., weighted
RECURSIVE WeightedSum(_, _)
WeightedSum(ct, i) ==
    IF i > Len(ct) THEN 0
    ELSE Byte(ct[i] * (2 * ((i \div Overhead) % 8) + 1) + WeightedSum(ct, i + Overhead))

TagByte(key, iv, ct, j) ==
    Byte(key[j] + 3 * key[j + Overhead] + 5 * iv[((j - 1) % NonceSize) + 1]
         + Len(ct) + WeightedSum(ct, j))

\* gcm.Seal(nil, iv, plaintext, nil): ciphertext followed by the tag
GCMSeal(key, iv, pt) ==
    LET ct == [i \in 1..Len(pt) |-> Byte(pt[i] + KeyStream(key, iv, i))]
    IN  Cat(ct, [j \in 1..Overhead |-> TagByte(key, iv, ct, j)])

\* gcm.Open(nil, iv, sealed, nil): the plaintext, or an authentication failure
GCMOpen(key, iv, sealed) ==
    LET n   == Len(sealed) - Overhead
        ct  == SubSeq(sealed, 1, n)
        tag == SubSeq(sealed, n + 1, Len(sealed))
    IN  IF n < 0 \/ tag # [j \in 1..Overhead |-> TagByte(key, iv, ct, j)]
        THEN [ok |-> FALSE, pt |-> <<>>]
        ELSE [ok |-> TRUE,
              pt |-> [i \in 1..n |-> Byte(ct[i] + 256 - KeyStream(key, iv, i))]]

(***************************************************************************)
(* base64.RawURLEncoding.  A token character is a record: a character of   *)
(* the URL-safe alphabet with its 6-bit value v, a line break ("\r" or     *)
(* "\n", which the decoder skips), or any other character.                 *)
(***************************************************************************)
Sym(v) == [kind |-> "alpha", v |-> v]
LineBreak == [kind |-> "newline", v |-> 0]
Foreign == [kind |-> "other", v |-> 0]

\* EncodeToString: 6 bits a character, the last one zero-filled, no padding
B64Encode(bs) ==
    LET n == Len(bs)
        m == (n * 8 + 5) \div 6
        At(i) == IF i <= n THEN bs[i] ELSE 0
        Sextet(k) == LET off == (k - 1) * 6
                         i   == (off \div 8) + 1
                         r   == off % 8
                     IN  ((At(i) * 256 + At(i + 1)) \div (2 ^ (10 - r))) % 64
    IN  [k \in 1..m |-> Sym(Sextet(k))]

\* DecodeString, not strict: line breaks are skipped, a character outside the
\* alphabet or a lone trailing character is an error, and the unused low bits
\* of the last character are not examined
B64Decode(tok) ==
    LET s == SelectSeq(tok, LAMBDA c : c.kind # "newline")
        n == Len(s)
        ByteAt(j) == LET off == (j - 1) * 8
                         i   == (off \div 6) + 1
                         r   == off % 6
                     IN  ((s[i].v * 64 + s[i + 1].v) \div (2 ^ (4 - r))) % 256
    IN  IF (\E i \in 1..n : s[i].kind # "alpha") \/ n % 4 = 1
        THEN [ok |-> FALSE, bytes |-> <<>>]
        ELSE [ok |-> TRUE, bytes |-> [j \in 1..((n * 6) \div 8) |-> ByteAt(j)]]

(***************************************************************************)
(* crypto.go                                                               *)
(***************************************************************************)
\* (mutant) the token encoded with padding, which RawURLEncoding does not read
encryptOrderData_Padded(data, iv) ==
    LET plaintext == ToBytes(JSONMarshal(data))
        packed    == Cat(iv, GCMSeal(orderKey, iv, plaintext))
        tok       == B64Encode(packed)
    IN  Cat(tok, [i \in 1..((4 - (Len(tok) % 4)) % 4) |-> Foreign])

\* encryptOrderData(data) under the process key, with the IV rand.Read drew
encryptOrderData(data, iv) ==
    LET plaintext == ToBytes(JSONMarshal(data))
        sealed    == GCMSeal(orderKey, iv, plaintext)
        packed    == Cat(iv, sealed)
    IN  B64Encode(packed)

\* decryptOrderData(token): the record, or an error
decryptOrderData(token) ==
    LET dec == B64Decode(token) IN
    IF ~dec.ok THEN NoData
    ELSE IF Len(dec.bytes) < NonceSize + Overhead THEN NoData
    ELSE LET iv         == SubSeq(dec.bytes, 1, NonceSize)
             ciphertext == SubSeq(dec.bytes, NonceSize + 1, Len(dec.bytes))
             opened     == GCMOpen(orderKey, iv, ciphertext)
         IN  IF ~opened.ok THEN NoData
             ELSE JSONUnmarshal(FromBytes(opened.pt))


\* hex.DecodeString of a string of hex digits (each digit modelled by its value)
HexDecode(digits) ==
    IF Len(digits) % 2 = 1 THEN [ok |-> FALSE, bytes |-> <<>>]
    ELSE [ok |-> TRUE,
          bytes |-> [i \in 1..(Len(digits) \div 2) |->
                        digits[2 * i - 1] * 16 + digits[2 * i]]]

\* (mutant) a fixed default key when ORDER_SECRET is unset
initCrypto_DefaultKey(secretHex, rnd) ==
    IF secretHex = <<>> THEN [i \in 1..KeyLen |-> 0]
    ELSE LET decoded == HexDecode(secretHex) IN
         IF ~decoded.ok \/ Len(decoded.bytes) < KeyLen THEN <<>>
         ELSE SubSeq(decoded.bytes, 1, KeyLen)

\* initCrypto(): the process key for ORDER_SECRET = secretHex, rnd being what
\* rand.Read yields; <<>> stands for log.Fatal (the process does not start)
initCrypto(secretHex, rnd) ==
    IF secretHex = <<>> THEN rnd
    ELSE LET decoded == HexDecode(secretHex) IN
         IF ~decoded.ok \/ Len(decoded.bytes) < KeyLen THEN <<>>
         ELSE SubSeq(decoded.bytes, 1, KeyLen)

(***************************************************************************)
(* Inputs of the codec specifications.                                     *)
(***************************************************************************)
NumIVs == 2        \* how many IVs rand.Read may draw
NumRandKeys == 2   \* how many keys rand.Read may draw
MaxBoots == 3      \* how many times the process is started

IVs == { [i \in 1..NonceSize |-> Byte(i * (k + 6))] : k \in 1..NumIVs }
RandKeys == { [i \in 1..KeyLen |-> Byte(i * (2 * k + 9) + k)] : k \in 1..NumRandKeys }

SecretA == [i \in 1..(2 * KeyLen) |-> (i * 7) % 16]
SecretB == [i \in 1..(2 * KeyLen) |-> (i * 5 + 3) % 16]
\* a longer secret with the same first 32 bytes, and one that is too short
SecretALong == Cat(SecretA, <<1, 2>>)
SecretShort == SubSeq(SecretA, 1, KeyLen)
Secrets == {<<>>, SecretA, SecretB, SecretALong, SecretShort}

\* well-formed order records: text fields, some with characters JSON escapes
OrderRecords ==
    { [ZeroOrderData EXCEPT !["DepositAddr"] = d, !["Memo"] = m, !["CorrID"] = c,
                            !["FromTicker"] = <<"E", "T", "H">>,
                            !["AmountOut"] = <<"1", ".", "3">>] :
        d \in {<<"0", "x", "a">>, <<"a">>},
        m \in {<<>>, <<"m">>, <<"\"", "<">>},
        c \in {<<>>, <<"c">>, <<"\\", "\n">>} }

NoToken == [tok |-> <<>>, key |-> <<>>, rec |-> ZeroOrderData, env |-> <<>>, boot |-> 0]
NotPresented == [tok |-> <<>>, how |-> "none"]
NoResult == [done |-> FALSE, ok |-> FALSE, data |-> ZeroOrderData]

\* the process is running (initCrypto returned)
Up == orderKey # <<>>

InitCodec ==
    /\ env \in Secrets
    /\ \E rnd \in RandKeys :
          /\ orderKey = initCrypto(env, rnd)
          /\ usedKeys = IF env = <<>> THEN {rnd} ELSE {}
    /\ Up
    /\ boots = 1
    /\ issued = NoToken
    /\ presented = NotPresented
    /\ result = NoResult

\* the process exits and is started again, with ORDER_SECRET set to e
Restart(e) ==
    /\ boots < MaxBoots
    /\ boots' = boots + 1
    /\ \E rnd \in RandKeys \ usedKeys :
          /\ orderKey' = initCrypto(e, rnd)
          /\ usedKeys' = IF e = <<>> THEN usedKeys \cup {rnd} ELSE usedKeys
    /\ env' = e
    /\ presented' = NotPresented
    /\ result' = NoResult
    /\ UNCHANGED issued

\* handleSwapConfirm seals an order: encryptOrderData with a fresh IV
Encrypt(data, iv) ==
    /\ Up
    /\ issued = NoToken
    /\ issued' = [tok |-> encryptOrderData(data, iv), key |-> orderKey,
                  rec |-> data, env |-> env, boot |-> boots]
    /\ UNCHANGED <<keyVars, presented, result>>

\* the client comes back with the token it was given
PresentGenuine ==
    /\ issued # NoToken
    /\ presented.how = "none"
    /\ presented' = [tok |-> issued.tok, how |-> "genuine"]
    /\ UNCHANGED <<keyVars, issued, result>>

\* the characters that may replace the alphabet character of value v
Replacements(v) ==
    {Sym(IF v % 2 = 0 THEN v + 1 ELSE v - 1), Sym((v + 32) % 64), LineBreak, Foreign}

\* ... or with the token changed in exactly one character
PresentSubstituted(pos, c) ==
    /\ issued # NoToken
    /\ presented.how = "none"
    /\ pos \in 1..Len(issued.tok)
    /\ c \in Replacements(issued.tok[pos].v)
    /\ presented' = [tok |-> [issued.tok EXCEPT ![pos] = c], how |-> "substituted"]
    /\ UNCHANGED <<keyVars, issued, result>>

\* ... or with one character appended to it
PresentAppended(c) ==
    /\ issued # NoToken
    /\ presented.how = "none"
    /\ presented' = [tok |-> Append(issued.tok, c), how |-> "appended"]
    /\ UNCHANGED <<keyVars, issued, result>>

\* handleOrder: decryptOrderData(token)
Decrypt ==
    /\ Up
    /\ presented.how # "none"
    /\ ~result.done
    /\ LET r == decryptOrderData(presented.tok)
       IN  result' = [done |-> TRUE, ok |-> r.ok, data |-> r.data]
    /\ UNCHANGED <<keyVars, issued, presented>>

\* keys, restarts and genuine tokens
NextCodec ==
    \/ \E e \in Secrets : Restart(e) /\ UNCHANGED nonCodec
    \/ \E data \in OrderRecords, iv \in IVs : Encrypt(data, iv) /\ UNCHANGED nonCodec
    \/ PresentGenuine /\ UNCHANGED nonCodec
    \/ Decrypt /\ UNCHANGED nonCodec

StartCodec == InitCodec /\ LimiterOff /\ ExplorerOff /\ MonitorOff /\ StatsOff /\ RingOff /\ CacheOff /\ OrderOff /\ SwapOff /\ ScheduleOff /\ SlidingOff /\ ConfirmOff /\ LiveOff /\ NeverCrashed

SpecCodec == StartCodec /\ [][NextCodec]_vars

\* records whose tokens end in a character with 0, 2 and 4 unused bits
TamperRecords ==
    { r \in OrderRecords : r["DepositAddr"] = <<"a">>
                            /\ Len(r["Memo"]) + Len(r["CorrID"]) <= 1 }

InitTamper == InitCodec /\ env = SecretA

\* one key, genuine and tampered tokens
NextTamper ==
    \/ \E data \in TamperRecords, iv \in IVs : Encrypt(data, iv) /\ UNCHANGED nonCodec
    \/ PresentGenuine /\ UNCHANGED nonCodec
    \/ \E pos \in 1..Len(issued.tok), c \in {Sym(v) : v \in 0..63} \cup {LineBreak, Foreign} :
          PresentSubstituted(pos, c) /\ UNCHANGED nonCodec
    \/ \E c \in {Sym(0), Sym(33), LineBreak, Foreign} :
          PresentAppended(c) /\ UNCHANGED nonCodec
    \/ Decrypt /\ UNCHANGED nonCodec

StartTamper == InitTamper /\ LimiterOff /\ ExplorerOff /\ MonitorOff /\ StatsOff /\ RingOff /\ CacheOff /\ OrderOff /\ SwapOff /\ ScheduleOff /\ SlidingOff /\ ConfirmOff /\ LiveOff /\ NeverCrashed

SpecTamper == StartTamper /\ [][NextTamper]_vars


(***************************************************************************)
(* C1.  decode(encode(r)) = r: a genuine token presented to the process    *)
(* key it was sealed under decodes, and to the record that was sealed, in  *)
(* every field (an absent memo stays empty), whatever IV encode drew.      *)
(***************************************************************************)
C1_RoundTrip ==
    (result.done /\ presented.how = "genuine" /\ orderKey = issued.key)
        => (result.ok /\ result.data = issued.rec)

\* a record with no memo and with characters JSON escapes has made the trip
C1_Witness ==
    /\ result.done /\ result.ok
    /\ presented.how = "genuine"
    /\ issued.rec["Memo"] = <<>>
    /\ issued.rec["CorrID"] = <<"\\", "\n">>

(***************************************************************************)
(* C3.  A genuine token is rejected by a process whose key differs from    *)
(* the key it was sealed under; after a restart without ORDER_SECRET (a    *)
(* fresh random key) it is rejected, and after any restart with the        *)
(* ORDER_SECRET it was issued under it is accepted.                        *)
(***************************************************************************)
C3_OtherKeyRejected ==
    (result.done /\ presented.how = "genuine") =>
        /\ (orderKey # issued.key => ~result.ok)
        /\ ((env = <<>> /\ boots > issued.boot) => ~result.ok)
        /\ ((env # <<>> /\ env = issued.env) => result.ok)

\* a token issued under a configured secret is refused after a restart without it
C3_Witness ==
    /\ result.done /\ presented.how = "genuine" /\ ~result.ok
    /\ boots > issued.boot /\ env = <<>> /\ issued.env = SecretA

\* ... and accepted again two restarts later, under the longer secret with the
\* same first 32 bytes
C3_AcceptedAgain ==
    /\ result.done /\ presented.how = "genuine" /\ result.ok
    /\ boots = issued.boot + 2 /\ env = SecretALong /\ issued.env = SecretA

(***************************************************************************)
(* C2.  Any single-character mutation of a valid token makes decode fail:  *)
(* a token that differs from an issued one in exactly one character, or    *)
(* that is an issued one with one character appended, never decodes.       *)
(***************************************************************************)
C2_AnyMutationRejected ==
    (result.done /\ presented.how \in {"substituted", "appended"}) => ~result.ok

\* what the decoder does guarantee: a changed token decodes only if its
\* characters still decode to the bytes of the issued token
\* a token accepted with its last character changed, and one with a line break
\* appended
C2_LastCharChanged ==
    /\ result.done /\ result.ok /\ presented.how = "substituted"
    /\ presented.tok[Len(presented.tok)] # issued.tok[Len(issued.tok)]

C2_LineBreakAppended ==
    /\ result.done /\ result.ok /\ presented.how = "appended"
    /\ presented.tok[Len(presented.tok)] = LineBreak

C2_AcceptedOnlyWithSameBytes ==
    (result.done /\ result.ok /\ presented.how \in {"substituted", "appended"})
        => /\ B64Decode(presented.tok).bytes = B64Decode(issued.tok).bytes
           /\ result.data = issued.rec


(***************************************************************************)
(* main.go: rateLimiter                                                    *)
(***************************************************************************)
\* strings.LastIndex(s, sep) and strings.Index(s, sep) for a one-character sep:
\* a 0-based index, -1 when sep does not occur
LastIndex(s, sep) ==
    IF \E i \in 1..Len(s) : s[i] = sep
    THEN (CHOOSE i \in 1..Len(s) : s[i] = sep /\ \A j \in (i + 1)..Len(s) : s[j] # sep) - 1
    ELSE -1

Index(s, sep) ==
    IF \E i \in 1..Len(s) : s[i] = sep
    THEN (CHOOSE i \in 1..Len(s) : s[i] = sep /\ \A j \in 1..(i - 1) : s[j] # sep) - 1
    ELSE -1

\* (mutant) the prefix cut at the first dot
Prefix_FirstDot(ip) ==
    LET idx == Index(ip, ".") IN IF idx > 0 THEN SubSeq(ip, 1, idx) ELSE ip

\* allow, lines 53-56: the /24 prefix of an IPv4 address
Prefix(ip) ==
    LET idx == LastIndex(ip, ".") IN IF idx > 0 THEN SubSeq(ip, 1, idx) ELSE ip

\* time.Time.After
After(t, u) == t > u

\* (mutant) the limit taken as exclusive
allow_OffByOne(rl, ip, limit, window, t) ==
    LET prefix == Prefix(ip) IN
    IF prefix \notin DOMAIN rl \/ After(t, rl[prefix].resetAt)
    THEN [counters |-> [k \in DOMAIN rl \cup {prefix} |->
                          IF k = prefix THEN [count |-> 1, resetAt |-> t + window]
                          ELSE rl[k]],
          ok |-> TRUE]
    ELSE [counters |-> [rl EXCEPT ![prefix].count = @ + 1],
          ok |-> rl[prefix].count + 1 < limit]

\* rl.allow(ip, limit, window) at time t, under rl.mu: the map after the call and
\* the value returned
allow(rl, ip, limit, window, t) ==
    LET prefix == Prefix(ip) IN
    IF prefix \notin DOMAIN rl \/ After(t, rl[prefix].resetAt)
    THEN [counters |-> [k \in DOMAIN rl \cup {prefix} |->
                          IF k = prefix THEN [count |-> 1, resetAt |-> t + window]
                          ELSE rl[k]],
          ok |-> TRUE]
    ELSE [counters |-> [rl EXCEPT ![prefix].count = @ + 1],
          ok |-> rl[prefix].count + 1 <= limit]

\* (mutant) the sweep drops every bucket
cleanup_All(rl, t) == [k \in {} |-> rl[k]]

\* one pass of startCleanup's loop at time t, under rl.mu
cleanup(rl, t) ==
    [k \in {p \in DOMAIN rl : ~After(t, rl[p].resetAt)} |-> rl[k]]

(***************************************************************************)
(* Inputs of the limiter specifications: client addresses, with the key    *)
(* each is expected to be counted under.                                   *)
(***************************************************************************)
IPTable ==
    << <<  <<"1", ".", "0", ".", "0", ".", "1">>,  <<"1", ".", "0", ".", "0">>  >>,
       <<  <<"1", ".", "0", ".", "0", ".", "3">>,  <<"1", ".", "0", ".", "0">>  >>,
       <<  <<"1", ".", "0", ".", "3", ".", "1">>,  <<"1", ".", "0", ".", "3">>  >>,
       <<  <<"h", "o", "t">>,                      <<"h", "o", "t">>            >> >>

IPs == { IPTable[i][1] : i \in 1..Len(IPTable) }
ExpectedKey(ip) == IPTable[CHOOSE i \in 1..Len(IPTable) : IPTable[i][1] = ip][2]
ExpectedKeys == { IPTable[i][2] : i \in 1..Len(IPTable) }

MaxLimit == 2    \* limits passed to allow: 1..MaxLimit
MaxWindow == 2   \* windows passed to allow: 1..MaxWindow seconds
MaxNow == 4      \* the clock stops here
MaxCalls == 5    \* calls of allow in a run

NoCall == [ip |-> <<>>, kind |-> "none", limit |-> 0, window |-> 0, at |-> 0,
           ok |-> FALSE, fresh |-> FALSE]
NoWindow == [open |-> FALSE, first |-> 0, n |-> 0, previews |-> 0, orders |-> 0,
             gen |-> 0]

\* the window of the expected key after a call of the given kind at time t: the
\* call opens a window when there is none or when it comes more than w after the
\* window's first call, and else counts in the open one
Counted(wn, kind, t, w) ==
    LET fresh == ~wn.open \/ t > wn.first + w
        base  == IF fresh
                 THEN [NoWindow EXCEPT !.open = TRUE, !.first = t, !.gen = wn.gen + 1]
                 ELSE wn
    IN  [base EXCEPT !.n = @ + 1,
                     !.previews = @ + (IF kind = "preview" THEN 1 ELSE 0),
                     !.orders = @ + (IF kind = "order" THEN 1 ELSE 0)]

InitLimiter ==
    /\ counters = [k \in {} |-> NoWindow]
    /\ now = 0
    /\ limCfg \in [limit : 1..MaxLimit, window : 1..MaxWindow]
    /\ lastCall = NoCall
    /\ win = [k \in ExpectedKeys |-> NoWindow]
    /\ calls = 0

\* a call rl.allow(ip, limit, window) by a handler of the given kind
Call(ip, kind, limit, window) ==
    LET r  == allow(counters, ip, limit, window, now)
        ek == ExpectedKey(ip)
    IN  /\ counters' = r.counters
        /\ lastCall' = [ip |-> ip, kind |-> kind, limit |-> limit, window |-> window,
                        at |-> now, ok |-> r.ok,
                        fresh |-> ~win[ek].open \/ now > win[ek].first + window]
        /\ win' = [win EXCEPT ![ek] = Counted(@, kind, now, window)]
        /\ calls' = calls + 1
        /\ UNCHANGED <<now, limCfg>>

Allow(ip) ==
    /\ calls < MaxCalls
    /\ Call(ip, "call", limCfg.limit, limCfg.window)

\* startCleanup: the sweep (it may run at any time in the model)
Sweep ==
    /\ counters' = cleanup(counters, now)
    /\ UNCHANGED <<now, limCfg, lastCall, win, calls>>

\* a second passes
Advance ==
    /\ now < MaxNow
    /\ now' = now + 1
    /\ UNCHANGED <<counters, limCfg, lastCall, win, calls>>

NextLimiter ==
    \/ \E ip \in IPs : Allow(ip) /\ UNCHANGED nonLimiter
    \/ Sweep /\ UNCHANGED nonLimiter
    \/ Advance /\ UNCHANGED nonLimiter

StartLimiter == InitLimiter /\ CodecOff /\ ExplorerOff /\ MonitorOff /\ StatsOff /\ RingOff /\ CacheOff /\ OrderOff /\ SwapOff /\ ScheduleOff /\ SlidingOff /\ ConfirmOff /\ LiveOff /\ NeverCrashed

SpecLimiter == StartLimiter /\ [][NextLimiter]_vars

(***************************************************************************)
(* C4.  With one limit k >= 1 and one window w, from no bucket: allow      *)
(* returns true for the first k calls made within w of the window's first  *)
(* call and false for every later call inside that window; the first call  *)
(* made more than w after the window's first call returns true and starts  *)
(* a new bucket with count 1.                                              *)
(***************************************************************************)
C4_FirstKAllowed ==
    lastCall.kind = "call" =>
        LET ek == ExpectedKey(lastCall.ip) IN
        /\ lastCall.ok = (win[ek].n <= lastCall.limit)
        /\ lastCall.fresh => lastCall.ok
        /\ (lastCall.fresh /\ Prefix(lastCall.ip) \in DOMAIN counters)
              => /\ counters[Prefix(lastCall.ip)].count = 1
                 /\ counters[Prefix(lastCall.ip)].resetAt = lastCall.at + lastCall.window

\* the window's restart: a call admitted as the first of the second window of
\* its key; and a call refused as the (k+1)-th of its window
C4_Witness ==
    /\ lastCall.kind = "call" /\ lastCall.fresh /\ lastCall.ok
    /\ win[ExpectedKey(lastCall.ip)].gen = 2
    /\ win[ExpectedKey(lastCall.ip)].first = lastCall.at

C4_RefusedWitness ==
    /\ lastCall.kind = "call" /\ ~lastCall.ok
    /\ win[ExpectedKey(lastCall.ip)].n = lastCall.limit + 1

(***************************************************************************)
(* C5.  Admission is keyed by the /24 prefix: addresses that differ only   *)
(* in the last octet share one bucket, addresses with different prefixes   *)
(* have separate buckets, and an address without a dot is keyed by the     *)
(* whole address.  Every bucket is that of an expected key and holds the   *)
(* calls of all the addresses of that key, and of no other.                *)
(***************************************************************************)
C5_KeyedByPrefix ==
    /\ DOMAIN counters \subseteq ExpectedKeys
    /\ \A key \in DOMAIN counters :
          /\ win[key].open
          /\ counters[key].count = win[key].n
          /\ counters[key].resetAt = win[key].first + limCfg.window
    /\ lastCall.kind = "call" => ExpectedKey(lastCall.ip) \in DOMAIN counters \/ now > lastCall.at

\* two addresses of one /24 have filled one bucket while another prefix and a
\* dotless address each have their own
C5_Witness ==
    /\ lastCall.ip = <<"1", ".", "0", ".", "0", ".", "3">>
    /\ ~lastCall.ok
    /\ counters[<<"1", ".", "0", ".", "0">>].count = lastCall.limit + 1
    /\ <<"h", "o", "t">> \in DOMAIN counters
    /\ counters[<<"h", "o", "t">>].count = 1
    /\ <<"1", ".", "0", ".", "3">> \in DOMAIN counters


(***************************************************************************)
(* The handlers that ask the limiter (handleQuote, handleSwapConfirm).     *)
(***************************************************************************)
QuoteLimit == 30   \* limiter.allow(ip, 30, time.Minute)
SwapLimit == 10    \* limiter.allow(ip, 10, time.Minute)
Minute == 60       \* time.Minute, in seconds

MaxRequests == 12  \* requests in a run

\* handleQuote, up to its rate-limit check: a preview quote from ip
HandleQuote(ip) ==
    /\ calls < MaxRequests
    /\ Call(ip, "preview", QuoteLimit, Minute)

\* handleSwapConfirm, up to its rate-limit check: a binding order from ip
HandleSwapConfirm(ip) ==
    /\ calls < MaxRequests
    /\ Call(ip, "order", SwapLimit, Minute)

\* time passes: a second (early in a minute), or a minute
Elapse(d) ==
    /\ now + d <= Minute + MaxNow
    /\ d = 1 => now % Minute < MaxNow
    /\ now' = now + d
    /\ UNCHANGED <<counters, limCfg, lastCall, win, calls>>

InitAdmission ==
    /\ counters = [k \in {} |-> NoWindow]
    /\ now = 0
    /\ limCfg = [limit |-> QuoteLimit, window |-> Minute]
    /\ lastCall = NoCall
    /\ win = [k \in ExpectedKeys |-> NoWindow]
    /\ calls = 0

\* two addresses of one /24
AdmissionIPs == { ip \in IPs : ExpectedKey(ip) = <<"1", ".", "0", ".", "0">> }

NextAdmission ==
    \/ \E ip \in AdmissionIPs : HandleQuote(ip) /\ UNCHANGED nonLimiter
    \/ \E ip \in AdmissionIPs : HandleSwapConfirm(ip) /\ UNCHANGED nonLimiter
    \/ \E d \in {1, Minute} : Elapse(d) /\ UNCHANGED nonLimiter
    \/ Sweep /\ UNCHANGED nonLimiter

StartAdmission == InitAdmission /\ CodecOff /\ ExplorerOff /\ MonitorOff /\ StatsOff /\ RingOff /\ CacheOff /\ OrderOff /\ SwapOff /\ ScheduleOff /\ SlidingOff /\ ConfirmOff /\ LiveOff /\ NeverCrashed

SpecAdmission == StartAdmission /\ [][NextAdmission]_vars

(***************************************************************************)
(* C6.  Limits of 30 preview quotes and 10 binding orders per minute per   *)
(* prefix: within one window a prefix is admitted for each of its first 30 *)
(* preview quotes and for each of its first 10 binding orders, however     *)
(* previews and orders interleave.                                         *)
(***************************************************************************)
C6_QuotesAndOrdersCountedApart ==
    LET w == win[ExpectedKey(lastCall.ip)] IN
    /\ (lastCall.kind = "preview" /\ w.previews <= QuoteLimit) => lastCall.ok
    /\ (lastCall.kind = "order" /\ w.orders <= SwapLimit) => lastCall.ok

\* what the shared bucket does: a request is admitted exactly when the previews
\* and orders of its window together are within the limit of its own kind
C6_SharedBucket ==
    lastCall.kind \in {"preview", "order"} =>
        LET w == win[ExpectedKey(lastCall.ip)] IN
        lastCall.ok = (w.previews + w.orders <= lastCall.limit)


(***************************************************************************)
(* explorer.go: the rate gate of explorerGet.  Time is counted in seconds; *)
(* the ticker's goroutine serves a tick before the clock moves on.         *)
(***************************************************************************)
TickPeriod == 6     \* time.NewTicker(6 * time.Second)
ChanCap == 1        \* make(chan struct{}, 1)

NumCallers == 3     \* goroutines calling explorerGet: the three pollers
MaxWinStart == 2    \* the observed window starts at 0..MaxWinStart

Callers == 1..NumCallers
Window == 10 * TickPeriod             \* the observed window: 60 s
MaxTime == MaxWinStart + Window + 1   \* the clock stops here

Min(a, b) == IF a < b THEN a ELSE b

\* initExplorerRateLimiter: the channel with its first token, the ticker started
InitExplorer ==
    /\ explorerRateCh = 1
    /\ clk = 0
    /\ tickDue = FALSE
    /\ gpc = [c \in Callers |-> "idle"]
    /\ sinceLast = TickPeriod
    /\ lastGap = TickPeriod
    /\ winStart \in 0..MaxWinStart
    /\ winCount = 0

\* the select of the ticker goroutine: send a token, or drop it when the channel is full
SendOrDrop(ch) == IF ch < ChanCap THEN ch + 1 ELSE ch

\* the ticker goroutine serves a tick (for range t.C)
TickerTick ==
    /\ tickDue
    /\ tickDue' = FALSE
    /\ explorerRateCh' = SendOrDrop(explorerRateCh)
    /\ UNCHANGED <<clk, gpc, sinceLast, lastGap, winStart, winCount>>

\* a caller enters explorerGet and blocks on the channel
EnterExplorerGet(c) ==
    /\ gpc[c] = "idle"
    /\ gpc' = [gpc EXCEPT ![c] = "waiting"]
    /\ UNCHANGED <<explorerRateCh, clk, tickDue, sinceLast, lastGap, winStart, winCount>>

\* <-explorerRateCh succeeds and the request goes out (explorerClient.Do)
TakeTokenAndSend(c) ==
    /\ gpc[c] = "waiting"
    /\ explorerRateCh > 0
    /\ explorerRateCh' = explorerRateCh - 1
    /\ gpc' = [gpc EXCEPT ![c] = "sending"]
    /\ lastGap' = sinceLast
    /\ sinceLast' = 0
    /\ winCount' = IF winStart <= clk /\ clk < winStart + Window
                   THEN winCount + 1 ELSE winCount
    /\ UNCHANGED <<clk, tickDue, winStart>>

\* the response (or the transport error) arrives and explorerGet returns
ExplorerGetReturns(c) ==
    /\ gpc[c] = "sending"
    /\ gpc' = [gpc EXCEPT ![c] = "idle"]
    /\ UNCHANGED <<explorerRateCh, clk, tickDue, sinceLast, lastGap, winStart, winCount>>

\* a second passes; the ticker fires every TickPeriod seconds
ClockSecond ==
    /\ ~tickDue
    /\ clk < MaxTime
    /\ clk' = clk + 1
    /\ tickDue' = ((clk + 1) % TickPeriod = 0)
    /\ sinceLast' = Min(sinceLast + 1, TickPeriod)
    /\ UNCHANGED <<explorerRateCh, gpc, lastGap, winStart, winCount>>

NextExplorer ==
    \/ TickerTick /\ UNCHANGED nonExplorer
    \/ \E c \in Callers : EnterExplorerGet(c) /\ UNCHANGED nonExplorer
    \/ \E c \in Callers : TakeTokenAndSend(c) /\ UNCHANGED nonExplorer
    \/ \E c \in Callers : ExplorerGetReturns(c) /\ UNCHANGED nonExplorer
    \/ ClockSecond /\ UNCHANGED nonExplorer

StartExplorer == InitExplorer /\ CodecOff /\ LimiterOff /\ MonitorOff /\ StatsOff /\ RingOff /\ CacheOff /\ OrderOff /\ SwapOff /\ ScheduleOff /\ SlidingOff /\ ConfirmOff /\ LiveOff /\ NeverCrashed

SpecExplorer == StartExplorer /\ [][NextExplorer]_vars

(***************************************************************************)
(* C7.  Two outbound explorer requests are never issued less than 6        *)
(* seconds apart, with any number of callers and after any idle period.    *)
(***************************************************************************)
C7_SixSecondsApart == lastGap >= TickPeriod

\* what the gate does guarantee: a token is never in the channel beyond its
\* capacity, so at most one request rides on a saved token
C7_AtMostOneSaved == explorerRateCh \in 0..ChanCap

(***************************************************************************)
(* C8.  In any window of length T >= 60 s at most T / 6 s explorer         *)
(* requests are issued: at most 10 in any 60-second window.                *)
(***************************************************************************)
C8_TenPerMinute == winCount <= Window \div TickPeriod

\* what the gate does guarantee: one request for a token saved before the window
\* and one for each tick in it
C8_TicksPlusOne == winCount <= Window \div TickPeriod + ChanCap


(***************************************************************************)
(* The competitor monitor: explorer transactions, txFeeUSD, the event      *)
(* ring, LiveStats and the cursor file.  USD amounts are held in units of  *)
(* 1/10000 USD, so that the division of txFeeUSD is exact.                 *)
(***************************************************************************)
BpsDenom == 10000       \* inUsd * float64(bps) / 10000.0
logRingSize == 2000     \* const logRingSize
FetchCount == 100       \* fetchExplorerTxs(..., 100)
TitleEvery == 10        \* if titleCounter >= 10

MaxFeed == 3            \* transactions the explorer comes to hold per affiliate

USD(n) == n * BpsDenom

Digits == <<"0", "1", "2", "3", "4", "5", "6", "7", "8", "9">>

IsDigit(c) == \E i \in 1..Len(Digits) : Digits[i] = c

DigitVal(c) == (CHOOSE i \in 1..Len(Digits) : Digits[i] = c) - 1

RECURSIVE DecimalValue(_)
DecimalValue(s) ==
    IF s = <<>> THEN 0
    ELSE 10 * DecimalValue(SubSeq(s, 1, Len(s) - 1)) + DigitVal(s[Len(s)])

RECURSIVE TrimSpace(_)
\* strings.TrimSpace
TrimSpace(s) ==
    IF s = <<>> THEN s
    ELSE IF s[1] = " " THEN TrimSpace(Tail(s))
    ELSE IF s[Len(s)] = " " THEN TrimSpace(SubSeq(s, 1, Len(s) - 1))
    ELSE s

\* strconv.ParseFloat(s, 64) on a string of decimal digits, else a syntax error
\* (the value 0 comes with the error)
ParseFloat(s) ==
    IF s # <<>> /\ \A i \in 1..Len(s) : IsDigit(s[i])
    THEN [v |-> USD(DecimalValue(s)), err |-> FALSE]
    ELSE [v |-> 0, err |-> TRUE]

RECURSIVE SumBps(_)
\* for _, f := range tx.AppFees { bps += f.Fee }
SumBps(fees) == IF fees = <<>> THEN 0 ELSE Head(fees) + SumBps(Tail(fees))

\* txFeeUSD
txFeeUSD(tx) ==
    LET bps == SumBps(tx.AppFees)
        p == ParseFloat(TrimSpace(tx.AmountInUsd))
    IN  IF bps = 0 THEN 0
        ELSE IF p.err \/ p.v = 0 THEN 0
        ELSE (p.v * bps) \div BpsDenom

\* inUsd, _ := strconv.ParseFloat(strings.TrimSpace(tx.AmountInUsd), 64)
txVolumeUSD(tx) == ParseFloat(TrimSpace(tx.AmountInUsd)).v

\* the configured resellers (two of the three of initMonitor; the first has a
\* thread to post to)
monitorResellers ==
    << [Name |-> "SWAP.MY", Affiliate |-> "swapmybuddy.near", ThreadID |-> 1],
       [Name |-> "LIZARDSWAP", Affiliate |-> "trustswap.near", ThreadID |-> 0] >>

Pollers == 1..Len(monitorResellers)
Aff(p) == monitorResellers[p].Affiliate
Affiliates == { Aff(p) : p \in Pollers }

ExplorerTx(addr, memo, amountInUsd, appFees) ==
    [DepositAddress |-> addr, DepositMemo |-> memo,
     AmountInUsd |-> amountInUsd, AppFees |-> appFees]

\* what the explorer comes to hold for each poller's affiliate, in explorer order
TxPool ==
    << << ExplorerTx("D1", "", <<"1", "0", "0", "0">>, <<150>>),
          ExplorerTx("D2", "", <<"5", "0", "0">>, <<150, 50>>),
          ExplorerTx("D3", "", <<>>, <<>>),
          ExplorerTx("D4", "", <<" ", "4", "0", " ">>, <<25>>) >>,
       << ExplorerTx("X", "7", <<"3", "0", "0">>, <<100>>),
          ExplorerTx("X", "8", <<"n", "a">>, <<25>>) >> >>

Feed(p) == SubSeq(TxPool[p], 1, Min(MaxFeed, Len(TxPool[p])))

\* the totals of the static analysis JSON the stats are seeded with
SeedStats ==
    [a \in Affiliates |->
        IF a = Aff(1) THEN [FeeUSD |-> 0, VolumeUSD |-> 0, SwapCount |-> 0]
        ELSE [FeeUSD |-> USD(7), VolumeUSD |-> USD(900), SwapCount |-> 4]]

\* monitorCursor
ZeroCursor == [LastAddr |-> "", LastMemo |-> ""]
CursorAt(tx) == [LastAddr |-> tx.DepositAddress, LastMemo |-> tx.DepositMemo]

\* cursors.Cursors[affiliate]: the zero value for a key the map lacks
CursorOf(m, a) == IF a \in DOMAIN m THEN m[a] ELSE ZeroCursor

\* cf.Cursors[affiliate] = cursor
PutCursor(m, a, c) == [x \in (DOMAIN m) \cup {a} |-> IF x = a THEN c ELSE m[x]]

\* the place of the transaction a cursor names in a sequence, 0 when it names none
Position(known, addr, memo) ==
    IF \E i \in 1..Len(known) :
          known[i].DepositAddress = addr /\ known[i].DepositMemo = memo
    THEN CHOOSE i \in 1..Len(known) :
          known[i].DepositAddress = addr /\ known[i].DepositMemo = memo
    ELSE 0

\* the explorer's answer to direction=next: up to count transactions after place pos
PageAfter(known, pos, count) == SubSeq(known, pos + 1, Min(pos + count, Len(known)))

\* (mutant) a page that starts at the cursor's own transaction
fetchExplorerTxs_Inclusive(known, lastAddr, lastMemo, count) ==
    IF lastAddr # ""
    THEN LET pos == Position(known, lastAddr, lastMemo)
         IN  PageAfter(known, IF pos > 0 THEN pos - 1 ELSE 0, count)
    ELSE PageAfter(known, 0, count)

\* fetchExplorerTxs against an explorer that holds known: the cursor is sent only
\* when lastAddr is not empty, and an empty memo is left out of the query
fetchExplorerTxs(known, lastAddr, lastMemo, count) ==
    IF lastAddr # ""
    THEN PageAfter(known, Position(known, lastAddr, lastMemo), count)
    ELSE PageAfter(known, 0, count)

LogEntry(p, tx, fee) ==
    [Reseller |-> monitorResellers[p].Name, Affiliate |-> Aff(p),
     Tx |-> tx, FeeUSD |-> fee]

\* ringBuffer.add
ringBuffer_add(entries, e) ==
    LET grown == <<e>> \o entries
    IN  IF Len(grown) > logRingSize THEN SubSeq(grown, 1, logRingSize) ELSE grown

\* LiveStats.add
LiveStats_add(st, feeUSD, volumeUSD) ==
    [FeeUSD |-> st.FeeUSD + feeUSD,
     VolumeUSD |-> st.VolumeUSD + volumeUSD,
     SwapCount |-> st.SwapCount + 1]

\* the cursor files a start of the monitor may find: none, or the file a previous
\* run left after the first transaction of the first affiliate
InitialFiles == { <<>>, PutCursor(<<>>, Aff(1), CursorAt(Feed(1)[1])) }

\* initMonitor and runMonitor: the stats seeded, the cursor file loaded once, every
\* poller started with its affiliate's cursor
InitMonitor ==
    /\ diskCursors \in InitialFiles
    /\ cursors = diskCursors
    /\ explorerLen = [p \in Pollers |->
          Position(Feed(p), CursorOf(diskCursors, Aff(p)).LastAddr,
                            CursorOf(diskCursors, Aff(p)).LastMemo)]
    /\ monitorLogBuf = <<>>
    /\ monitorStats = SeedStats
    /\ cards = [p \in Pollers |-> <<>>]
    /\ ppc = [p \in Pollers |-> "start"]
    /\ cursor = [p \in Pollers |-> ZeroCursor]
    /\ txs = [p \in Pollers |-> <<>>]
    /\ ti = [p \in Pollers |-> 0]
    /\ titleCounter = [p \in Pollers |-> 0]
    /\ cf = [p \in Pollers |-> <<>>]
    /\ before = [p \in Pollers |-> SeedStats[Aff(p)]]

\* the explorer records one more successful transaction of the affiliate; a poller
\* sees the explorer only when it fetches, so what is recorded meanwhile is
\* recorded here just before the fetch
ExplorerRecords(p) ==
    /\ ppc[p] = "fetch"
    /\ explorerLen[p] < Len(Feed(p))
    /\ explorerLen' = [explorerLen EXCEPT ![p] = @ + 1]
    /\ UNCHANGED <<cursors, diskCursors, monitorLogBuf, monitorStats, cards, ppc,
                   cursor, txs, ti, titleCounter, cf, before>>

\* runResellerPoller begins: cursor := cursors.Cursors[r.Affiliate]; titleCounter := 0
PollerStarts(p) ==
    /\ ppc[p] = "start"
    /\ cursor' = [cursor EXCEPT ![p] = CursorOf(cursors, Aff(p))]
    /\ titleCounter' = [titleCounter EXCEPT ![p] = 0]
    /\ ppc' = [ppc EXCEPT ![p] = "fetch"]
    /\ UNCHANGED <<explorerLen, cursors, diskCursors, monitorLogBuf, monitorStats,
                   cards, txs, ti, cf, before>>

\* fetchExplorerTxs succeeds; an empty batch goes straight to the 15 s sleep
Fetch(p) ==
    /\ ppc[p] = "fetch"
    /\ LET got == fetchExplorerTxs(SubSeq(Feed(p), 1, explorerLen[p]),
                                   cursor[p].LastAddr, cursor[p].LastMemo, FetchCount)
       IN  /\ txs' = [txs EXCEPT ![p] = got]
           /\ ti' = [ti EXCEPT ![p] = IF got = <<>> THEN 0 ELSE 1]
           /\ ppc' = [ppc EXCEPT ![p] = IF got = <<>> THEN "sleep" ELSE "ring"]
    /\ before' = [before EXCEPT ![p] = monitorStats[Aff(p)]]
    /\ UNCHANGED <<explorerLen, cursors, diskCursors, monitorLogBuf, monitorStats,
                   cards, cursor, titleCounter, cf>>

\* a poller that forgets where it was when a fetch fails
FetchFails_Resets(p) ==
    /\ ppc[p] = "fetch"
    /\ ppc' = [ppc EXCEPT ![p] = "backoff"]
    /\ cursor' = [cursor EXCEPT ![p] = ZeroCursor]
    /\ UNCHANGED <<explorerLen, cursors, diskCursors, monitorLogBuf, monitorStats,
                   cards, txs, ti, titleCounter, cf, before>>

\* (mutant) a poller that gives up after a failed fetch: return for continue
FetchFails_Returns(p) ==
    /\ ppc[p] = "fetch"
    /\ ppc' = [ppc EXCEPT ![p] = "returned"]
    /\ UNCHANGED <<explorerLen, cursors, diskCursors, monitorLogBuf, monitorStats,
                   cards, cursor, txs, ti, titleCounter, cf, before>>

\* fetchExplorerTxs fails: log, time.Sleep(30 * time.Second), continue
FetchFails(p) ==
    /\ ppc[p] = "fetch"
    /\ ppc' = [ppc EXCEPT ![p] = "backoff"]
    /\ UNCHANGED <<explorerLen, cursors, diskCursors, monitorLogBuf, monitorStats,
                   cards, cursor, txs, ti, titleCounter, cf, before>>

\* the 30 s or the 15 s sleep ends and the loop fetches again
WakeUp(p) ==
    /\ ppc[p] \in {"backoff", "sleep"}
    /\ ppc' = [ppc EXCEPT ![p] = "fetch"]
    /\ UNCHANGED <<explorerLen, cursors, diskCursors, monitorLogBuf, monitorStats,
                   cards, cursor, txs, ti, titleCounter, cf, before>>

\* fee := txFeeUSD(tx); monitorLogBuf.add(LogEntry{...})
PushRing(p) ==
    /\ ppc[p] = "ring"
    /\ LET tx == txs[p][ti[p]]
       IN  monitorLogBuf' = ringBuffer_add(monitorLogBuf, LogEntry(p, tx, txFeeUSD(tx)))
    /\ ppc' = [ppc EXCEPT ![p] = "stats"]
    /\ UNCHANGED <<explorerLen, cursors, diskCursors, monitorStats, cards, cursor,
                   txs, ti, titleCounter, cf, before>>

\* monitorStats[r.Affiliate].add(fee, inUsd)
AddStats(p) ==
    /\ ppc[p] = "stats"
    /\ LET tx == txs[p][ti[p]]
       IN  monitorStats' = [monitorStats EXCEPT ![Aff(p)] =
                               LiveStats_add(@, txFeeUSD(tx), txVolumeUSD(tx))]
    /\ ppc' = [ppc EXCEPT ![p] =
                  IF monitorResellers[p].ThreadID # 0 THEN "post" ELSE "advance"]
    /\ UNCHANGED <<explorerLen, cursors, diskCursors, monitorLogBuf, cards, cursor,
                   txs, ti, titleCounter, cf, before>>

\* postMonitorCard, then the 200 ms pause (a bot token is configured)
PostCard(p) ==
    /\ ppc[p] = "post"
    /\ cards' = [cards EXCEPT ![p] = Append(@, CursorAt(txs[p][ti[p]]))]
    /\ ppc' = [ppc EXCEPT ![p] = "advance"]
    /\ UNCHANGED <<explorerLen, cursors, diskCursors, monitorLogBuf, monitorStats,
                   cursor, txs, ti, titleCounter, cf, before>>

\* cursor.LastAddr = tx.DepositAddress; cursor.LastMemo = tx.DepositMemo;
\* titleCounter++; then the next transaction, or saveCursor after the last one
AdvanceCursor(p) ==
    /\ ppc[p] = "advance"
    /\ cursor' = [cursor EXCEPT ![p] = CursorAt(txs[p][ti[p]])]
    /\ titleCounter' = [titleCounter EXCEPT ![p] = @ + 1]
    /\ IF ti[p] < Len(txs[p])
       THEN /\ ti' = [ti EXCEPT ![p] = @ + 1]
            /\ ppc' = [ppc EXCEPT ![p] = "ring"]
       ELSE /\ ti' = ti
            /\ ppc' = [ppc EXCEPT ![p] = "load"]
    /\ UNCHANGED <<explorerLen, cursors, diskCursors, monitorLogBuf, monitorStats,
                   cards, txs, cf, before>>

\* saveCursor, first half: cf := loadCursors()
SaveLoads(p) ==
    /\ ppc[p] = "load"
    /\ cf' = [cf EXCEPT ![p] = diskCursors]
    /\ ppc' = [ppc EXCEPT ![p] = "write"]
    /\ UNCHANGED <<explorerLen, cursors, diskCursors, monitorLogBuf, monitorStats,
                   cards, cursor, txs, ti, titleCounter, before>>

\* saveCursor, first half, when os.ReadFile or json.Unmarshal fails (the file is
\* missing, or is read while another write has truncated it): loadCursors returns
\* the empty map
SaveLoadsNothing(p) ==
    /\ ppc[p] = "load"
    /\ cf' = [cf EXCEPT ![p] = <<>>]
    /\ ppc' = [ppc EXCEPT ![p] = "write"]
    /\ UNCHANGED <<explorerLen, cursors, diskCursors, monitorLogBuf, monitorStats,
                   cards, cursor, txs, ti, titleCounter, before>>

\* saveCursor, second half: cf.Cursors[affiliate] = cursor; os.WriteFile; then the
\* title is refreshed and titleCounter reset once it has reached 10
SaveWrites(p) ==
    /\ ppc[p] = "write"
    /\ diskCursors' = PutCursor(cf[p], Aff(p), cursor[p])
    /\ titleCounter' = [titleCounter EXCEPT ![p] = IF @ >= TitleEvery THEN 0 ELSE @]
    /\ ppc' = [ppc EXCEPT ![p] = "sleep"]
    /\ UNCHANGED <<explorerLen, cursors, monitorLogBuf, monitorStats, cards, cursor,
                   txs, ti, cf, before>>

NextMonitor ==
    \/ \E p \in Pollers : ExplorerRecords(p) /\ UNCHANGED nonMonitor
    \/ \E p \in Pollers : PollerStarts(p) /\ UNCHANGED nonMonitor
    \/ \E p \in Pollers : Fetch(p) /\ UNCHANGED nonMonitor
    \/ \E p \in Pollers : FetchFails(p) /\ UNCHANGED nonMonitor
    \/ \E p \in Pollers : WakeUp(p) /\ UNCHANGED nonMonitor
    \/ \E p \in Pollers : PushRing(p) /\ UNCHANGED nonMonitor
    \/ \E p \in Pollers : AddStats(p) /\ UNCHANGED nonMonitor
    \/ \E p \in Pollers : PostCard(p) /\ UNCHANGED nonMonitor
    \/ \E p \in Pollers : AdvanceCursor(p) /\ UNCHANGED nonMonitor
    \/ \E p \in Pollers : SaveLoads(p) /\ UNCHANGED nonMonitor
    \/ \E p \in Pollers : SaveLoadsNothing(p) /\ UNCHANGED nonMonitor
    \/ \E p \in Pollers : SaveWrites(p) /\ UNCHANGED nonMonitor

StartMonitor == InitMonitor /\ CodecOff /\ LimiterOff /\ ExplorerOff /\ StatsOff /\ RingOff /\ CacheOff /\ OrderOff /\ SwapOff /\ ScheduleOff /\ SlidingOff /\ ConfirmOff /\ LiveOff /\ NeverCrashed

SpecMonitor == StartMonitor /\ [][NextMonitor]_vars

(***************************************************************************)
(* C9.  A poller applies the transactions of every fetched batch in        *)
(* explorer order: each is pushed to the ring and added to the stats       *)
(* exactly once, the cursor names a transaction only after it was folded,  *)
(* and when the poller persists the cursor after a batch of N the file     *)
(* holds the N-th transaction's (depositAddress, depositMemo) for the      *)
(* affiliate while the stats have grown by the fees, the volumes and N.    *)
(***************************************************************************)
Reverse(q) == [i \in 1..Len(q) |-> q[Len(q) + 1 - i]]

\* the ring's entries of a poller's affiliate, oldest first
RingOf(p) ==
    LET Mine(e) == e.Affiliate = Aff(p)
    IN  Reverse(SelectSeq(monitorLogBuf, Mine))

\* the place in the feed of the cursor the poller was started with
StartPos(p) ==
    Position(Feed(p), CursorOf(cursors, Aff(p)).LastAddr,
                      CursorOf(cursors, Aff(p)).LastMemo)

RECURSIVE SumFees(_)
SumFees(q) == IF q = <<>> THEN 0 ELSE txFeeUSD(Head(q)) + SumFees(Tail(q))

RECURSIVE SumVolumes(_)
SumVolumes(q) == IF q = <<>> THEN 0 ELSE txVolumeUSD(Head(q)) + SumVolumes(Tail(q))

\* st has grown from st0 by the transactions of q, each counted once
GrownBy(st0, q, st) ==
    /\ st.FeeUSD = st0.FeeUSD + SumFees(q)
    /\ st.VolumeUSD = st0.VolumeUSD + SumVolumes(q)
    /\ st.SwapCount = st0.SwapCount + Len(q)

\* how many transactions the poller has added to the stats
Added(p) == monitorStats[Aff(p)].SwapCount - SeedStats[Aff(p)].SwapCount

\* the fee and the volume of every transaction of the feeds
FeedFees == [p \in Pollers |-> [i \in 1..Len(Feed(p)) |-> txFeeUSD(Feed(p)[i])]]
FeedVolumes == [p \in Pollers |-> [i \in 1..Len(Feed(p)) |-> txVolumeUSD(Feed(p)[i])]]

RECURSIVE SumRange(_, _, _)
\* f[a] + ... + f[b]
SumRange(f, a, b) == IF a > b THEN 0 ELSE f[a] + SumRange(f, a + 1, b)

C9_FoldedInOrder ==
    \A p \in Pollers :
        LET s == StartPos(p)
            r == RingOf(p)
            n == Added(p)
            st == monitorStats[Aff(p)]
            c == Position(Feed(p), cursor[p].LastAddr, cursor[p].LastMemo)
        IN  /\ s + Len(r) <= Len(Feed(p))
            /\ \A i \in 1..Len(r) : /\ r[i].Tx = Feed(p)[s + i]
                                    /\ r[i].FeeUSD = FeedFees[p][s + i]
            /\ n \in {Len(r), Len(r) - 1}
            /\ n >= 0
            /\ st.FeeUSD = SeedStats[Aff(p)].FeeUSD + SumRange(FeedFees[p], s + 1, s + n)
            /\ st.VolumeUSD =
                  SeedStats[Aff(p)].VolumeUSD + SumRange(FeedVolumes[p], s + 1, s + n)
            /\ cursor[p] = ZeroCursor \/ (c > 0 /\ c <= s + n)

C9_BatchPersisted ==
    \A p \in Pollers :
        (ppc[p] = "write" /\ ppc'[p] = "sleep") =>
            /\ txs[p] # <<>>
            /\ Aff(p) \in DOMAIN diskCursors'
            /\ diskCursors'[Aff(p)] = CursorAt(txs[p][Len(txs[p])])
            /\ GrownBy(before[p], txs[p], monitorStats'[Aff(p)])

C9_AppliedInExplorerOrder == []C9_FoldedInOrder /\ [][C9_BatchPersisted]_vars

\* the two transactions of $1000 at 150 bps and $500 at 200 bps were fetched as one
\* batch and persisted, while the other poller was folding too
C9_Witness ==
    /\ ppc[1] = "sleep"
    /\ Len(txs[1]) = 2
    /\ txs[1] = SubSeq(Feed(1), 1, 2)
    /\ Aff(1) \in DOMAIN diskCursors
    /\ diskCursors[Aff(1)] = CursorAt(Feed(1)[2])
    /\ monitorStats[Aff(1)] = [FeeUSD |-> USD(25), VolumeUSD |-> USD(1500), SwapCount |-> 2]
    /\ Len(monitorLogBuf) = 3
    /\ monitorLogBuf[2].Affiliate = Aff(2)


(***************************************************************************)
(* C11.  The cursor persisted for an affiliate is written after each       *)
(* successful non-empty batch, never moves backward in explorer order and  *)
(* never disappears once written, under any interleaving of the saves of   *)
(* the pollers that share the cursor file.                                 *)
(***************************************************************************)
\* the place in its affiliate's feed of the cursor the file holds for poller p
DiskPos(m, p) == Position(Feed(p), CursorOf(m, Aff(p)).LastAddr,
                                   CursorOf(m, Aff(p)).LastMemo)

C11_StaysAndAdvances ==
    \A p \in Pollers :
        Aff(p) \in DOMAIN diskCursors =>
            /\ Aff(p) \in DOMAIN diskCursors'
            /\ DiskPos(diskCursors', p) >= DiskPos(diskCursors, p)

C11_CursorNeverLost == [][C11_StaysAndAdvances]_vars

\* what saveCursor does guarantee: a write changes the entries of the other
\* affiliates only to what the writer had loaded
C11_OthersAsLoaded ==
    \A p \in Pollers :
        (ppc[p] = "write" /\ ppc'[p] = "sleep") =>
            \A q \in Pollers \ {p} :
                CursorOf(diskCursors', Aff(q)) = CursorOf(cf[p], Aff(q))

C11_WritesWhatWasLoaded == [][C11_OthersAsLoaded]_vars

(***************************************************************************)
(* The monitor in a process that may crash and be started again: what is   *)
(* in memory is lost, the cursor file, the explorer's data and the cards   *)
(* already posted remain.                                                  *)
(***************************************************************************)
MaxCrashes == 1     \* crashes in a run

\* the process dies at any point and main runs again: initMonitor seeds the stats,
\* runMonitor loads the cursor file and starts the pollers
CrashAndRestart ==
    /\ crashes < MaxCrashes
    /\ crashes' = crashes + 1
    /\ cursors' = diskCursors
    /\ monitorLogBuf' = <<>>
    /\ monitorStats' = SeedStats
    /\ ppc' = [p \in Pollers |-> "start"]
    /\ cursor' = [p \in Pollers |-> ZeroCursor]
    /\ txs' = [p \in Pollers |-> <<>>]
    /\ ti' = [p \in Pollers |-> 0]
    /\ titleCounter' = [p \in Pollers |-> 0]
    /\ cf' = [p \in Pollers |-> <<>>]
    /\ before' = [p \in Pollers |-> SeedStats[Aff(p)]]
    /\ UNCHANGED <<explorerLen, diskCursors, cards>>

NextCrash ==
    \/ NextMonitor
    \/ CrashAndRestart /\ UNCHANGED nonProcess

SpecCrash == StartMonitor /\ [][NextCrash]_vars

(***************************************************************************)
(* C12.  If the process crashes after a poller folded transactions and     *)
(* before the cursor was persisted, then after the restart at most one     *)
(* transaction already folded and emitted is processed a second time.      *)
(***************************************************************************)
\* how many of the cards posted to a thread repeat an earlier card
Repeated(q) == Len(q) - Cardinality({ q[i] : i \in 1..Len(q) })

C12_AtMostOneRepeated ==
    \A p \in Pollers : crashes <= 1 => Repeated(cards[p]) <= 1

\* what the poller does guarantee: between two starts a transaction is emitted once
C12_OncePerRun ==
    \A p \in Pollers : \A i \in 1..Len(cards[p]) :
        Cardinality({ j \in 1..Len(cards[p]) : cards[p][j] = cards[p][i] }) <= crashes + 1

(***************************************************************************)
(* ringBuffer.add called by the pollers, under the mutex of the ring.      *)
(***************************************************************************)
MaxRingAdds == 2003     \* calls of add in a run (the ring overflows at 2001)

\* (mutant) a ring that grows at its tail
prepend_AtTail(es, e) == es \o <<e>>

\* append([]LogEntry{e}, rb.entries...)
prepend(es, e) == <<e>> \o es

\* if len(rb.entries) > logRingSize { rb.entries = rb.entries[:logRingSize] }
cut(es) == IF Len(es) > logRingSize THEN SubSeq(es, 1, logRingSize) ELSE es

InitRing ==
    /\ rbEntries = <<>>
    /\ rbMu = FALSE
    /\ rbPc = [p \in Pollers |-> "Lock"]
    /\ rbAdds = 0

\* rb.mu.Lock()
RingLock(p) ==
    /\ rbPc[p] = "Lock"
    /\ rbAdds < MaxRingAdds
    /\ ~rbMu
    /\ rbMu' = TRUE
    /\ rbPc' = [rbPc EXCEPT ![p] = "append"]
    /\ UNCHANGED <<rbEntries, rbAdds>>

\* rb.entries = append([]LogEntry{e}, rb.entries...)
RingAppend(p) ==
    /\ rbPc[p] = "append"
    /\ rbEntries' = prepend(rbEntries, rbAdds + 1)
    /\ rbAdds' = rbAdds + 1
    /\ rbPc' = [rbPc EXCEPT ![p] = "cut"]
    /\ UNCHANGED rbMu

\* the ring is cut back to logRingSize
RingCut(p) ==
    /\ rbPc[p] = "cut"
    /\ rbEntries' = cut(rbEntries)
    /\ rbPc' = [rbPc EXCEPT ![p] = "Unlock"]
    /\ UNCHANGED <<rbMu, rbAdds>>

\* defer rb.mu.Unlock()
RingUnlock(p) ==
    /\ rbPc[p] = "Unlock"
    /\ rbMu' = FALSE
    /\ rbPc' = [rbPc EXCEPT ![p] = "Lock"]
    /\ UNCHANGED <<rbEntries, rbAdds>>

NextRing ==
    \/ \E p \in Pollers : RingLock(p) /\ UNCHANGED nonRing
    \/ \E p \in Pollers : RingAppend(p) /\ UNCHANGED nonRing
    \/ \E p \in Pollers : RingCut(p) /\ UNCHANGED nonRing
    \/ \E p \in Pollers : RingUnlock(p) /\ UNCHANGED nonRing

StartRing == InitRing /\ CodecOff /\ LimiterOff /\ ExplorerOff /\ MonitorOff /\ StatsOff /\ CacheOff /\ OrderOff /\ SwapOff /\ ScheduleOff /\ SlidingOff /\ ConfirmOff /\ LiveOff /\ NeverCrashed

SpecRing == StartRing /\ [][NextRing]_vars

(***************************************************************************)
(* C13.  After n calls of add, from any pollers in any interleaving, the   *)
(* ring holds exactly the min(n, 2000) most recently added entries, most     *)
(* recent first; its length never exceeds 2000 and on overflow only the    *)
(* oldest entry is discarded.                                              *)
(***************************************************************************)
C13_MostRecentFirst ==
    \* what a reader finds whenever no add holds the mutex
    /\ ~rbMu => Len(rbEntries) = Min(rbAdds, logRingSize)
    \* inside add the ring is at most one entry longer; the order is the same
    /\ Len(rbEntries) <= logRingSize + 1
    /\ \A i \in 1..Len(rbEntries) : rbEntries[i] = rbAdds + 1 - i

\* the ring has overflowed twice and both pollers have added to it
C13_Witness ==
    /\ rbAdds = logRingSize + 2
    /\ Len(rbEntries) = logRingSize
    /\ rbEntries[logRingSize] = 3
    /\ ~rbMu

(***************************************************************************)
(* LiveStats.add and LiveStats.snapshot, statement by statement, under     *)
(* the sync.RWMutex of the struct.                                         *)
(***************************************************************************)
NumGoroutines == 2   \* goroutines calling add and snapshot
MaxAdds == 2         \* calls of add in a run

Goroutines == 1..NumGoroutines

\* the (feeUSD, volumeUSD) a call of add may carry
AddArgs == { [feeUSD |-> 15, volumeUSD |-> 1000], [feeUSD |-> 10, volumeUSD |-> 500] }

NoArgs == [feeUSD |-> 0, volumeUSD |-> 0]
ZeroStats == [FeeUSD |-> 0, VolumeUSD |-> 0, SwapCount |-> 0]
NoSnapshot == [FeeUSD |-> -1, VolumeUSD |-> -1, SwapCount |-> -1]

\* (mutant) a Lock that does not wait for the readers to leave
CanLock_IgnoringReaders(m) == ~m.w

\* sync.RWMutex: Lock waits for the writer and the readers to leave
CanLock(m) == ~m.w /\ m.r = 0

\* (mutant) a snapshot that does not wait for the writer: the naive read of three fields
CanRLock_Naive(m) == TRUE

\* sync.RWMutex: RLock waits for the writer to leave
CanRLock(m) == ~m.w

InitStats ==
    /\ liveStats = ZeroStats
    /\ mu = [w |-> FALSE, r |-> 0]
    /\ spc = [g \in Goroutines |-> "idle"]
    /\ sargs = [g \in Goroutines |-> NoArgs]
    /\ sread = [g \in Goroutines |-> NoSnapshot]
    /\ snap = [g \in Goroutines |-> NoSnapshot]
    /\ completed = {ZeroStats}
    /\ nAdds = 0

\* a goroutine calls s.add(feeUSD, volumeUSD)
CallAdd(g, a) ==
    /\ spc[g] = "idle"
    /\ nAdds < MaxAdds
    /\ nAdds' = nAdds + 1
    /\ sargs' = [sargs EXCEPT ![g] = a]
    /\ spc' = [spc EXCEPT ![g] = "Lock"]
    /\ UNCHANGED <<liveStats, mu, sread, snap, completed>>

\* s.mu.Lock()
AddLock(g) ==
    /\ spc[g] = "Lock"
    /\ CanLock(mu)
    /\ mu' = [mu EXCEPT !.w = TRUE]
    /\ spc' = [spc EXCEPT ![g] = "FeeUSD+="]
    /\ UNCHANGED <<liveStats, sargs, sread, snap, completed, nAdds>>

\* s.FeeUSD += feeUSD
AddFee(g) ==
    /\ spc[g] = "FeeUSD+="
    /\ liveStats' = [liveStats EXCEPT !.FeeUSD = @ + sargs[g].feeUSD]
    /\ spc' = [spc EXCEPT ![g] = "VolumeUSD+="]
    /\ UNCHANGED <<mu, sargs, sread, snap, completed, nAdds>>

\* s.VolumeUSD += volumeUSD
AddVolume(g) ==
    /\ spc[g] = "VolumeUSD+="
    /\ liveStats' = [liveStats EXCEPT !.VolumeUSD = @ + sargs[g].volumeUSD]
    /\ spc' = [spc EXCEPT ![g] = "SwapCount++"]
    /\ UNCHANGED <<mu, sargs, sread, snap, completed, nAdds>>

\* s.SwapCount++
AddCount(g) ==
    /\ spc[g] = "SwapCount++"
    /\ liveStats' = [liveStats EXCEPT !.SwapCount = @ + 1]
    /\ spc' = [spc EXCEPT ![g] = "Unlock"]
    /\ UNCHANGED <<mu, sargs, sread, snap, completed, nAdds>>

\* s.mu.Unlock(): the add is complete
AddUnlock(g) ==
    /\ spc[g] = "Unlock"
    /\ mu' = [mu EXCEPT !.w = FALSE]
    /\ completed' = completed \cup {liveStats}
    /\ sargs' = [sargs EXCEPT ![g] = NoArgs]
    /\ spc' = [spc EXCEPT ![g] = "idle"]
    /\ UNCHANGED <<liveStats, sread, snap, nAdds>>

\* a goroutine calls s.snapshot()
CallSnapshot(g) ==
    /\ spc[g] = "idle"
    /\ spc' = [spc EXCEPT ![g] = "RLock"]
    /\ UNCHANGED <<liveStats, mu, sargs, sread, snap, completed, nAdds>>

\* s.mu.RLock()
SnapRLock(g) ==
    /\ spc[g] = "RLock"
    /\ CanRLock(mu)
    /\ mu' = [mu EXCEPT !.r = @ + 1]
    /\ spc' = [spc EXCEPT ![g] = "FeeUSD"]
    /\ UNCHANGED <<liveStats, sargs, sread, snap, completed, nAdds>>

\* return s.FeeUSD, ...: the first operand is read
SnapReadFee(g) ==
    /\ spc[g] = "FeeUSD"
    /\ sread' = [sread EXCEPT ![g].FeeUSD = liveStats.FeeUSD]
    /\ spc' = [spc EXCEPT ![g] = "VolumeUSD"]
    /\ UNCHANGED <<liveStats, mu, sargs, snap, completed, nAdds>>

\* return ..., s.VolumeUSD, ...: the second operand is read
SnapReadVolume(g) ==
    /\ spc[g] = "VolumeUSD"
    /\ sread' = [sread EXCEPT ![g].VolumeUSD = liveStats.VolumeUSD]
    /\ spc' = [spc EXCEPT ![g] = "SwapCount"]
    /\ UNCHANGED <<liveStats, mu, sargs, snap, completed, nAdds>>

\* return ..., s.SwapCount: the third operand is read
SnapReadCount(g) ==
    /\ spc[g] = "SwapCount"
    /\ sread' = [sread EXCEPT ![g].SwapCount = liveStats.SwapCount]
    /\ spc' = [spc EXCEPT ![g] = "RUnlock"]
    /\ UNCHANGED <<liveStats, mu, sargs, snap, completed, nAdds>>

\* defer s.mu.RUnlock(), and the triple is returned
SnapRUnlock(g) ==
    /\ spc[g] = "RUnlock"
    /\ mu' = [mu EXCEPT !.r = @ - 1]
    /\ snap' = [snap EXCEPT ![g] = sread[g]]
    /\ sread' = [sread EXCEPT ![g] = NoSnapshot]
    /\ spc' = [spc EXCEPT ![g] = "idle"]
    /\ UNCHANGED <<liveStats, sargs, completed, nAdds>>

NextStats ==
    \/ \E g \in Goroutines, a \in AddArgs : CallAdd(g, a) /\ UNCHANGED nonStats
    \/ \E g \in Goroutines : AddLock(g) /\ UNCHANGED nonStats
    \/ \E g \in Goroutines : AddFee(g) /\ UNCHANGED nonStats
    \/ \E g \in Goroutines : AddVolume(g) /\ UNCHANGED nonStats
    \/ \E g \in Goroutines : AddCount(g) /\ UNCHANGED nonStats
    \/ \E g \in Goroutines : AddUnlock(g) /\ UNCHANGED nonStats
    \/ \E g \in Goroutines : CallSnapshot(g) /\ UNCHANGED nonStats
    \/ \E g \in Goroutines : SnapRLock(g) /\ UNCHANGED nonStats
    \/ \E g \in Goroutines : SnapReadFee(g) /\ UNCHANGED nonStats
    \/ \E g \in Goroutines : SnapReadVolume(g) /\ UNCHANGED nonStats
    \/ \E g \in Goroutines : SnapReadCount(g) /\ UNCHANGED nonStats
    \/ \E g \in Goroutines : SnapRUnlock(g) /\ UNCHANGED nonStats

StartStats == InitStats /\ CodecOff /\ LimiterOff /\ ExplorerOff /\ MonitorOff /\ RingOff /\ CacheOff /\ OrderOff /\ SwapOff /\ ScheduleOff /\ SlidingOff /\ ConfirmOff /\ LiveOff /\ NeverCrashed

SpecStats == StartStats /\ [][NextStats]_vars

(***************************************************************************)
(* C10.  add increments fee, volume and swap count atomically and every    *)
(* snapshot, under any interleaving of adds and snapshots, is the state    *)
(* after some whole number of completed adds: never the fee of one state   *)
(* with the count of another.                                              *)
(***************************************************************************)
C10_SnapshotConsistent ==
    /\ \A g \in Goroutines : snap[g] # NoSnapshot => snap[g] \in completed
    /\ \A g \in Goroutines :
          spc[g] \in {"FeeUSD", "VolumeUSD", "SwapCount", "RUnlock"} =>
              liveStats \in completed

\* a snapshot returned the state after the first add, and the same goroutine waits
\* for the lock again while the second add is half-way (its fee is in, its count
\* is not)
C10_Witness ==
    \E g, h \in Goroutines :
        /\ snap[g].SwapCount = 1
        /\ spc[g] = "RLock"
        /\ spc[h] = "VolumeUSD+="
        /\ liveStats.SwapCount = 1
        /\ liveStats.FeeUSD # snap[g].FeeUSD

(***************************************************************************)
(* The token cache (tokencache.go).  A TokenInfo keeps the fields the      *)
(* cache works on; strings are sequences of characters.                    *)
(***************************************************************************)
tokenCacheTTL == 5      \* minutes

\* the letters, lower case and upper case
Letters ==
    << <<"a", "A">>, <<"b", "B">>, <<"c", "C">>, <<"d", "D">>, <<"e", "E">>,
       <<"f", "F">>, <<"g", "G">>, <<"h", "H">>, <<"i", "I">>, <<"j", "J">>,
       <<"k", "K">>, <<"l", "L">>, <<"m", "M">>, <<"n", "N">>, <<"o", "O">>,
       <<"p", "P">>, <<"q", "Q">>, <<"r", "R">>, <<"s", "S">>, <<"t", "T">>,
       <<"u", "U">>, <<"v", "V">>, <<"w", "W">>, <<"x", "X">>, <<"y", "Y">>,
       <<"z", "Z">> >>

UpperOf(c) == IF \E i \in 1..Len(Letters) : Letters[i][1] = c
              THEN Letters[CHOOSE i \in 1..Len(Letters) : Letters[i][1] = c][2]
              ELSE c

LowerOf(c) == IF \E i \in 1..Len(Letters) : Letters[i][2] = c
              THEN Letters[CHOOSE i \in 1..Len(Letters) : Letters[i][2] = c][1]
              ELSE c

\* strings.ToUpper, strings.ToLower
ToUpper(s) == [i \in 1..Len(s) |-> UpperOf(s[i])]
ToLower(s) == [i \in 1..Len(s) |-> LowerOf(s[i])]

\* strings.EqualFold
EqualFold(s, t) == ToLower(ToUpper(s)) = ToLower(ToUpper(t))

\* strings.Contains
Contains(s, sub) ==
    \E i \in 0..(Len(s) - Len(sub)) : SubSeq(s, i + 1, i + Len(sub)) = sub

TokenInfo(id, ticker, symbol, chain, price) ==
    [DefuseAssetID |-> id, Ticker |-> ticker, Symbol |-> symbol, ChainName |-> chain,
     Price |-> price]

\* refreshTokenCache, the loop body: the ticker falls back to the symbol and is
\* upper-cased
normalize(t) ==
    LET tk == IF t.Ticker = <<>> /\ t.Symbol # <<>> THEN t.Symbol ELSE t.Ticker
    IN  [t EXCEPT !.Ticker = ToUpper(tk)]

\* chainDisplayName and networkOrder, for the chains of the model's token lists:
\* <<blockchain code, display name, rank>>
chainDisplayName ==
    << << <<"e", "t", "h">>, <<"E", "t", "h">>, 1 >>,
       << <<"s", "o", "l">>, <<"S", "o", "l">>, 3 >> >>

Other == <<"O", "t", "h", "e", "r">>

\* the name of the group a token goes to
netName(t) ==
    LET code == ToLower(t.ChainName)
    IN  IF \E i \in 1..Len(chainDisplayName) : chainDisplayName[i][1] = code
        THEN chainDisplayName[CHOOSE i \in 1..Len(chainDisplayName) :
                                  chainDisplayName[i][1] = code][2]
        ELSE IF t.ChainName = <<>> THEN Other ELSE t.ChainName

\* networkOrder[name]: <<rank, ok>>
networkOrder(name) ==
    IF \E i \in 1..Len(chainDisplayName) : chainDisplayName[i][2] = name
    THEN <<chainDisplayName[CHOOSE i \in 1..Len(chainDisplayName) :
                                chainDisplayName[i][2] = name][3], TRUE>>
    ELSE <<0, FALSE>>

\* the less function of the networks: ranked ones by rank, then the unranked
\* ones (the model's lists hold one unranked network, Other: no two names are
\* compared by alphabet)
networkLess(gi, gj) ==
    LET oi == networkOrder(gi.Name)
        oj == networkOrder(gj.Name)
    IN  IF oi[2] /\ oj[2] THEN oi[1] < oj[1]
        ELSE IF oi[2] THEN TRUE
        ELSE FALSE

\* sort.Slice on a short slice is an insertion sort: an element goes before
\* the first one it is less than.  Tokens go by price, highest first.
RECURSIVE insertByPrice(_, _)
insertByPrice(sorted, t) ==
    IF sorted = <<>> THEN <<t>>
    ELSE IF t.Price > sorted[1].Price THEN <<t>> \o sorted
    ELSE <<sorted[1]>> \o insertByPrice(Tail(sorted), t)

RECURSIVE sortByPrice(_)
sortByPrice(toks) ==
    IF toks = <<>> THEN <<>>
    ELSE insertByPrice(sortByPrice(SubSeq(toks, 1, Len(toks) - 1)), toks[Len(toks)])

\* networks go by networkLess
RECURSIVE insertByOrder(_, _)
insertByOrder(sorted, g) ==
    IF sorted = <<>> THEN <<g>>
    ELSE IF networkLess(g, sorted[1]) THEN <<g>> \o sorted
    ELSE <<sorted[1]>> \o insertByOrder(Tail(sorted), g)

RECURSIVE sortByOrder(_)
sortByOrder(groups) ==
    IF groups = <<>> THEN <<>>
    ELSE insertByOrder(sortByOrder(SubSeq(groups, 1, Len(groups) - 1)),
                       groups[Len(groups)])

\* networkMap[netName]: the tokens of one network, in list order
RECURSIVE tokensOf(_, _)
tokensOf(toks, name) ==
    IF toks = <<>> THEN <<>>
    ELSE (IF netName(toks[1]) = name THEN <<toks[1]>> ELSE <<>>)
         \o tokensOf(Tail(toks), name)

\* the keys of networkMap, each once, in order of first appearance
RECURSIVE groupNames(_)
groupNames(toks) ==
    IF toks = <<>> THEN <<>>
    ELSE LET rest == groupNames(SubSeq(toks, 1, Len(toks) - 1))
             n == netName(toks[Len(toks)])
         IN  IF \E i \in 1..Len(rest) : rest[i] = n THEN rest ELSE rest \o <<n>>

\* the network groups: the tokens of each network by price, the networks by rank
networkGroups(toks) ==
    LET names == groupNames(toks)
    IN  sortByOrder([i \in 1..Len(names) |->
                        [Name |-> names[i],
                         Tokens |-> sortByPrice(tokensOf(toks, names[i]))]])

\* byAssetID[t.DefuseAssetID] = t, in list order: the last token of an id stays
assetIndex(toks) ==
    [id \in { toks[i].DefuseAssetID : i \in 1..Len(toks) } |->
        toks[CHOOSE i \in 1..Len(toks) :
                 /\ toks[i].DefuseAssetID = id
                 /\ \A j \in (i + 1)..Len(toks) : toks[j].DefuseAssetID # id]]

\* what the upstream token endpoint may hold
ethOnEth == TokenInfo(<<"e", "t", "h">>, <<"e", "t", "h">>, <<>>, <<"e", "t", "h">>, 3)
usdtOnEth == TokenInfo(<<"u", ":", "1">>, <<>>, <<"u", "s", "d", "t">>, <<"E", "T", "H">>, 1)
usdtOnSol == TokenInfo(<<"S", "o", "l", ":", "u">>, <<"u", "s", "d", "t">>, <<>>,
                       <<"s", "o", "l">>, 1)
usdtById == TokenInfo(<<"E", "t", "h", ":", "u">>, <<"U", "S", "D", "T">>, <<>>, <<>>, 2)

\* what fetchTokens may return: an error, or the list the endpoint sent
Responses ==
    { [err |-> TRUE, tokens |-> <<>>],
      [err |-> FALSE, tokens |-> <<usdtById, ethOnEth, usdtOnEth>>],
      [err |-> FALSE, tokens |-> <<usdtOnEth, [usdtOnSol EXCEPT !.DefuseAssetID = <<"u", ":", "1">>]>>] }

NumHandlers == 1     \* request handlers running at a time
MaxFetches == 2      \* calls of fetchTokens in a run (the initial load is the first)
MaxClock == 5        \* the clock stops here

Refresher == 0
Handlers == 1..NumHandlers
Activities == {Refresher} \cup Handlers

ZeroTime == 0 - tokenCacheTTL      \* time.Time{}: stale at every instant

\* the four fields refreshTokenCache builds from the list of fetch n
Snapshot(toks, n, at) ==
    LET norm == [i \in 1..Len(toks) |-> normalize(toks[i])]
    IN  [tokens |-> [from |-> n, val |-> norm],
         byAssetID |-> [from |-> n, val |-> assetIndex(norm)],
         networks |-> [from |-> n, val |-> networkGroups(norm)],
         updatedAt |-> [from |-> n, val |-> at]]

\* var cache = &tokenCache{}
ZeroCache ==
    [tokens |-> [from |-> 0, val |-> <<>>],
     byAssetID |-> [from |-> 0, val |-> <<>>],
     networks |-> [from |-> 0, val |-> <<>>],
     updatedAt |-> [from |-> 0, val |-> ZeroTime]]

NoBuild == [ok |-> FALSE, snap |-> ZeroCache]
NoReturn == [op |-> "none", path |-> "none", val |-> ZeroCache.tokens, err |-> FALSE]

\* (mutant) getTokens that fails whenever the refresh fails
staleWhileError_Strict(toks) ==
    [op |-> "getTokens", path |-> "stale", val |-> ZeroCache.tokens, err |-> TRUE]

\* getTokens after a failed refresh: the cached list if it is not empty
staleWhileError(toks) ==
    IF Len(toks.val) > 0
    THEN [op |-> "getTokens", path |-> "stale", val |-> toks, err |-> FALSE]
    ELSE [op |-> "getTokens", path |-> "stale", val |-> ZeroCache.tokens, err |-> TRUE]

\* main runs startCacheRefresher before it serves: the initial refresh has
\* returned, the refresher goroutine waits for its ticker, no handler runs
InitCache ==
    /\ \E resp \in Responses :
          cache = IF resp.err THEN ZeroCache ELSE Snapshot(resp.tokens, 1, 0)
    /\ cmu = [w |-> FALSE, r |-> 0]
    /\ cnow = 0
    /\ ctick = FALSE
    /\ fetches = 1
    /\ cop = [a \in Activities |-> IF a = Refresher THEN "refresher" ELSE "none"]
    /\ apc = [a \in Activities |-> "idle"]
    /\ built = [a \in Activities |-> NoBuild]
    /\ seen = [a \in Activities |-> {}]
    /\ ret = [a \in Activities |-> NoReturn]

\* a minute passes; the ticker fires every tokenCacheTTL
CacheMinute ==
    /\ cnow < MaxClock
    /\ cnow' = cnow + 1
    /\ ctick' = IF cnow' % tokenCacheTTL = 0 THEN TRUE ELSE ctick
    /\ UNCHANGED <<cache, cmu, fetches, cop, apc, built, seen, ret>>

\* startCacheRefresher, the goroutine: for range ticker.C { refreshTokenCache() }
RefresherWakes ==
    /\ apc[Refresher] = "idle"
    /\ ctick
    /\ ctick' = FALSE
    /\ apc' = [apc EXCEPT ![Refresher] = "fetch"]
    /\ UNCHANGED <<cache, cmu, cnow, fetches, cop, built, seen, ret>>

\* a handler calls getTokens, or getNetworkGroups, which calls getTokens first
CallGetTokens(h, op) ==
    /\ apc[h] = "idle"
    /\ cop' = [cop EXCEPT ![h] = op]
    /\ apc' = [apc EXCEPT ![h] = "RLock"]
    /\ seen' = [seen EXCEPT ![h] = {}]
    /\ ret' = [ret EXCEPT ![h] = NoReturn]
    /\ UNCHANGED <<cache, cmu, cnow, ctick, fetches, built>>

\* getTokens: cache.mu.RLock()
GetTokensRLock(h) ==
    /\ apc[h] = "RLock"
    /\ CanRLock(cmu)
    /\ cmu' = [cmu EXCEPT !.r = @ + 1]
    /\ apc' = [apc EXCEPT ![h] = "check"]
    /\ UNCHANGED <<cache, cnow, ctick, fetches, cop, built, seen, ret>>

isFresh == cnow - cache.updatedAt.val < tokenCacheTTL /\ Len(cache.tokens.val) > 0

\* getTokens: the freshness test; a stale cache is unlocked and refreshed
GetTokensCheck(h) ==
    /\ apc[h] = "check"
    /\ seen' = [seen EXCEPT ![h] = @ \cup {cache.updatedAt.from}]
    /\ IF isFresh
       THEN apc' = [apc EXCEPT ![h] = "return"] /\ cmu' = cmu
       ELSE apc' = [apc EXCEPT ![h] = "fetch"] /\ cmu' = [cmu EXCEPT !.r = @ - 1]
    /\ UNCHANGED <<cache, cnow, ctick, fetches, cop, built, ret>>

\* where a handler goes when its getTokens has returned
afterGetTokens(h) == IF cop[h] = "getNetworkGroups" THEN "RLock networks" ELSE "idle"

\* getTokens: tokens := cache.tokens; RUnlock; return tokens, nil
GetTokensReturn(h) ==
    /\ apc[h] = "return"
    /\ seen' = [seen EXCEPT ![h] = @ \cup {cache.tokens.from}]
    /\ ret' = [ret EXCEPT ![h] = [op |-> "getTokens", path |-> "fresh",
                                  val |-> cache.tokens, err |-> FALSE]]
    /\ cmu' = [cmu EXCEPT !.r = @ - 1]
    /\ apc' = [apc EXCEPT ![h] = afterGetTokens(h)]
    /\ UNCHANGED <<cache, cnow, ctick, fetches, cop, built>>

\* refreshTokenCache: fetchTokens fails, the refresh returns the error
FetchTokensFailsWithin(a, most) ==
    /\ apc[a] = "fetch"
    /\ fetches < most
    /\ fetches' = fetches + 1
    /\ built' = [built EXCEPT ![a] = NoBuild]
    /\ apc' = [apc EXCEPT ![a] = IF a = Refresher THEN "idle" ELSE "stale"]
    /\ UNCHANGED <<cache, cmu, cnow, ctick, cop, seen, ret>>

FetchTokensFails(a) == FetchTokensFailsWithin(a, MaxFetches)

\* refreshTokenCache: fetchTokens returns a list, the snapshot is built from it
FetchTokensReturnsWithin(a, most) ==
    /\ apc[a] = "fetch"
    /\ fetches < most
    /\ fetches' = fetches + 1
    /\ \E resp \in Responses :
          /\ ~resp.err
          /\ built' = [built EXCEPT ![a] = [ok |-> TRUE,
                                            snap |-> Snapshot(resp.tokens, fetches', 0)]]
    /\ apc' = [apc EXCEPT ![a] = "Lock"]
    /\ UNCHANGED <<cache, cmu, cnow, ctick, cop, seen, ret>>

FetchTokensReturns(a) == FetchTokensReturnsWithin(a, MaxFetches)

\* the assignments under the lock, in order; the last one takes time.Now()
InstallOrder == <<"tokens", "byAssetID", "networks", "updatedAt">>

\* refreshTokenCache: cache.mu.Lock()
RefreshLock(a) ==
    /\ apc[a] = "Lock"
    /\ CanLock(cmu)
    /\ cmu' = [cmu EXCEPT !.w = TRUE]
    /\ apc' = [apc EXCEPT ![a] = InstallOrder[1]]
    /\ UNCHANGED <<cache, cnow, ctick, fetches, cop, built, seen, ret>>

\* cache.tokens = tokens; cache.byAssetID = byAssetID; cache.networks = networks;
\* cache.updatedAt = time.Now(): one assignment
WriteField(a) ==
    \E i \in 1..Len(InstallOrder) :
        /\ apc[a] = InstallOrder[i]
        /\ cache' = [cache EXCEPT ![InstallOrder[i]] =
                        IF InstallOrder[i] = "updatedAt"
                        THEN [from |-> built[a].snap.updatedAt.from, val |-> cnow]
                        ELSE built[a].snap[InstallOrder[i]]]
        /\ apc' = [apc EXCEPT ![a] = IF i < Len(InstallOrder) THEN InstallOrder[i + 1]
                                     ELSE "Unlock"]
        /\ UNCHANGED <<cmu, cnow, ctick, fetches, cop, built, seen, ret>>

\* where an activity stands from the end of its build to the end of its install
Installing == {"Lock", "Unlock"} \cup { InstallOrder[i] : i \in 1..Len(InstallOrder) }

\* cache.mu.Unlock(); return nil
RefreshUnlock(a) ==
    /\ apc[a] = "Unlock"
    /\ cmu' = [cmu EXCEPT !.w = FALSE]
    /\ built' = [built EXCEPT ![a] = NoBuild]
    /\ apc' = [apc EXCEPT ![a] = IF a = Refresher THEN "idle" ELSE "reread"]
    /\ UNCHANGED <<cache, cnow, ctick, fetches, cop, seen, ret>>

\* getTokens, the refresh succeeded: RLock; return cache.tokens, nil
GetTokensReread(h) ==
    /\ apc[h] = "reread"
    /\ CanRLock(cmu)
    /\ ret' = [ret EXCEPT ![h] = [op |-> "getTokens", path |-> "refreshed",
                                  val |-> cache.tokens, err |-> FALSE]]
    /\ apc' = [apc EXCEPT ![h] = afterGetTokens(h)]
    /\ UNCHANGED <<cache, cmu, cnow, ctick, fetches, cop, built, seen>>

\* getTokens, the refresh failed: RLock; the stale list, or the error
GetTokensStale(h) ==
    /\ apc[h] = "stale"
    /\ CanRLock(cmu)
    /\ ret' = [ret EXCEPT ![h] = staleWhileError(cache.tokens)]
    /\ apc' = [apc EXCEPT ![h] = afterGetTokens(h)]
    /\ UNCHANGED <<cache, cmu, cnow, ctick, fetches, cop, built, seen>>

\* getNetworkGroups, after getTokens: RLock; return cache.networks
ReadNetworks(h) ==
    /\ apc[h] = "RLock networks"
    /\ CanRLock(cmu)
    /\ ret' = [ret EXCEPT ![h] = [op |-> "getNetworkGroups", path |-> ret[h].path,
                                  val |-> cache.networks, err |-> FALSE]]
    /\ apc' = [apc EXCEPT ![h] = "idle"]
    /\ UNCHANGED <<cache, cmu, cnow, ctick, fetches, cop, built, seen>>

\* findTokenByAssetID: RLock; the entry of the map, or nil
findTokenByAssetID(id) ==
    IF id \in DOMAIN cache.byAssetID.val
    THEN [from |-> cache.byAssetID.from, val |-> <<cache.byAssetID.val[id]>>]
    ELSE [from |-> cache.byAssetID.from, val |-> <<>>]

AssetIDs == { usdtOnEth.DefuseAssetID, ethOnEth.DefuseAssetID }

FindTokenByAssetID(h, id) ==
    /\ apc[h] = "idle"
    /\ CanRLock(cmu)
    /\ ret' = [ret EXCEPT ![h] = [op |-> "findTokenByAssetID", path |-> "none",
                                  val |-> findTokenByAssetID(id), err |-> FALSE]]
    /\ seen' = [seen EXCEPT ![h] = {cache.byAssetID.from}]
    /\ UNCHANGED <<cache, cmu, cnow, ctick, fetches, cop, apc, built>>

NextCache ==
    \/ CacheMinute /\ UNCHANGED nonCache
    \/ RefresherWakes /\ UNCHANGED nonCache
    \/ \E h \in Handlers : CallGetTokens(h, "getTokens") /\ UNCHANGED nonCache
    \/ \E h \in Handlers : CallGetTokens(h, "getNetworkGroups") /\ UNCHANGED nonCache
    \/ \E h \in Handlers : GetTokensRLock(h) /\ UNCHANGED nonCache
    \/ \E h \in Handlers : GetTokensCheck(h) /\ UNCHANGED nonCache
    \/ \E h \in Handlers : GetTokensReturn(h) /\ UNCHANGED nonCache
    \/ \E a \in Activities : FetchTokensFails(a) /\ UNCHANGED nonCache
    \/ \E a \in Activities : FetchTokensReturns(a) /\ UNCHANGED nonCache
    \/ \E a \in Activities : RefreshLock(a) /\ UNCHANGED nonCache
    \/ \E a \in Activities : WriteField(a) /\ UNCHANGED nonCache
    \/ \E a \in Activities : RefreshUnlock(a) /\ UNCHANGED nonCache
    \/ \E h \in Handlers : GetTokensReread(h) /\ UNCHANGED nonCache
    \/ \E h \in Handlers : GetTokensStale(h) /\ UNCHANGED nonCache
    \/ \E h \in Handlers : ReadNetworks(h) /\ UNCHANGED nonCache
    \/ \E h \in Handlers, id \in AssetIDs : FindTokenByAssetID(h, id) /\ UNCHANGED nonCache

StartCache == InitCache /\ CodecOff /\ LimiterOff /\ ExplorerOff /\ MonitorOff /\ StatsOff /\ RingOff /\ OrderOff /\ SwapOff /\ ScheduleOff /\ SlidingOff /\ ConfirmOff /\ LiveOff /\ NeverCrashed

SpecCache == StartCache /\ [][NextCache]_vars

(***************************************************************************)
(* C14.  When getTokens finds the cache stale and its refresh fails, it    *)
(* returns the installed token list without an error if that list is not   *)
(* empty, and the error only if it is empty; a refresh whose fetch fails   *)
(* changes no field of the cache, the fetch timestamp included.            *)
(***************************************************************************)
C14_ReturnsStale ==
    \A h \in Handlers : apc[h] = "stale" /\ apc'[h] # "stale" =>
        /\ Len(cache.tokens.val) > 0 =>
              ~ret'[h].err /\ ret'[h].val = cache.tokens /\ ret'[h].path = "stale"
        /\ Len(cache.tokens.val) = 0 => ret'[h].err

C14_FailureChangesNothing ==
    \A a \in Activities : apc[a] = "fetch" /\ apc'[a] \in {"idle", "stale"} =>
        cache' = cache

\* a failed refresh never reaches the install
C14_NoInstallAfterFailure ==
    \A a \in Activities :
        apc[a] \in Installing => built[a].ok

C14_StaleWhileError ==
    /\ []C14_NoInstallAfterFailure
    /\ [][C14_ReturnsStale /\ C14_FailureChangesNothing]_vars

\* a handler was handed a list older than the TTL, without an error
C14_Witness ==
    \E h \in Handlers :
        /\ ret[h].op = "getTokens" /\ ret[h].path = "stale" /\ ~ret[h].err
        /\ ret[h].val = cache.tokens
        /\ Len(ret[h].val.val) > 0
        /\ cnow - cache.updatedAt.val >= tokenCacheTTL
        /\ apc[h] = "idle"

(***************************************************************************)
(* C15.  Readers observe a complete snapshot: whenever no writer holds the *)
(* lock, the token list, the asset-id map, the network groups and the      *)
(* timestamp of the cache come from one and the same fetch; the fields a   *)
(* reader reads under one RLock come from one fetch; and until an install  *)
(* takes the lock the cache is the previous snapshot, whatever a refresh   *)
(* in progress has built.                                                  *)
(***************************************************************************)
Complete(c) ==
    /\ c.byAssetID.from = c.tokens.from
    /\ c.networks.from = c.tokens.from
    /\ c.updatedAt.from = c.tokens.from

C15_OneFetch ==
    /\ ~cmu.w => Complete(cache)
    /\ cmu.r > 0 => ~cmu.w
    /\ \A h \in Handlers : Cardinality(seen[h]) <= 1

\* a field of the cache changes only in the hands of the writer that holds the lock
C15_SwapUnderLock == cache' # cache => cmu.w /\ cmu.r = 0

C15_CompleteSnapshot == []C15_OneFetch /\ [][C15_SwapUnderLock]_vars

\* a handler has read the timestamp and the list of the previous snapshot under
\* its RLock while the refresher, its new snapshot built, waits for the lock
C15_Witness ==
    \E h \in Handlers :
        /\ apc[Refresher] = "Lock" /\ built[Refresher].ok
        /\ apc[h] = "return" /\ cmu.r = 1
        /\ seen[h] = {cache.tokens.from}
        /\ built[Refresher].snap.tokens.from > cache.tokens.from

(***************************************************************************)
(* C16.  The snapshot has a single writer, the background refresher: no    *)
(* request handler ever builds or installs a snapshot, and no two          *)
(* activities are between the end of a build and the end of its install    *)
(* at the same time.                                                       *)
(***************************************************************************)
C16_SingleWriter ==
    /\ \A h \in Handlers : apc[h] \notin Installing
    /\ Cardinality({ a \in Activities : apc[a] \in Installing }) <= 1

\* what the lock does give: one activity at a time assigns the fields
C16_OneInstallAtATime ==
    Cardinality({ a \in Activities : apc[a] \in Installing \ {"Lock"} }) <= 1

(***************************************************************************)
(* C18.  In every installed snapshot no two descriptors of the token list  *)
(* share an asset id, whatever list the upstream endpoint returned, so the *)
(* asset-id map holds every descriptor of the list.                        *)
(***************************************************************************)
C18_AssetIdUnique ==
    ~cmu.w =>
        /\ \A i, j \in 1..Len(cache.tokens.val) :
              cache.tokens.val[i].DefuseAssetID = cache.tokens.val[j].DefuseAssetID
                  => i = j
        /\ \A i \in 1..Len(cache.tokens.val) :
              cache.byAssetID.val[cache.tokens.val[i].DefuseAssetID] = cache.tokens.val[i]

\* what the code gives: the map holds, for every id of the list, the last
\* descriptor of the list that carries it
C18_LastOfEachId ==
    ~cmu.w =>
        \A id \in DOMAIN cache.byAssetID.val :
            \E i \in 1..Len(cache.tokens.val) :
                /\ cache.tokens.val[i] = cache.byAssetID.val[id]
                /\ \A j \in (i + 1)..Len(cache.tokens.val) :
                      cache.tokens.val[j].DefuseAssetID # id

(***************************************************************************)
(* findToken on a frozen snapshot.  The result is the index in cache.tokens *)
(* of the descriptor returned (the function returns &cache.tokens[i]), 0    *)
(* for nil.                                                                *)
(***************************************************************************)
\* the loop of the no-network case: the first descriptor of the ticker
RECURSIVE tickerLoop(_, _, _)
tickerLoop(toks, ticker, i) ==
    IF i > Len(toks) THEN 0
    ELSE IF EqualFold(toks[i].Ticker, ticker) THEN i
    ELSE tickerLoop(toks, ticker, i + 1)

\* the first pass: ticker and blockchain
RECURSIVE exactLoop(_, _, _, _)
exactLoop(toks, ticker, network, i) ==
    IF i > Len(toks) THEN 0
    ELSE IF EqualFold(toks[i].Ticker, ticker) /\ EqualFold(toks[i].ChainName, network)
         THEN i
    ELSE exactLoop(toks, ticker, network, i + 1)

\* the second pass: ticker and asset id substring
RECURSIVE substringLoop(_, _, _, _)
substringLoop(toks, ticker, network, i) ==
    IF i > Len(toks) THEN 0
    ELSE IF /\ EqualFold(toks[i].Ticker, ticker)
            /\ Contains(ToLower(toks[i].DefuseAssetID), network)
         THEN i
    ELSE substringLoop(toks, ticker, network, i + 1)

\* (mutant) one pass that takes the first descriptor matching either way
RECURSIVE findToken_OnePass(_, _, _)
findToken_OnePass(toks, t, n) ==
    IF n = <<>> THEN tickerLoop(toks, ToUpper(t), 1)
    ELSE IF toks = <<>> THEN 0
    ELSE IF /\ EqualFold(toks[1].Ticker, ToUpper(t))
            /\ \/ EqualFold(toks[1].ChainName, ToLower(n))
               \/ Contains(ToLower(toks[1].DefuseAssetID), ToLower(n))
         THEN 1
    ELSE LET r == findToken_OnePass(Tail(toks), t, n)
         IN  IF r = 0 THEN 0 ELSE r + 1

findToken(toks, t, n) ==
    LET ticker == ToUpper(t)
        network == ToLower(n)
    IN  IF network = <<>> THEN tickerLoop(toks, ticker, 1)
        ELSE IF exactLoop(toks, ticker, network, 1) # 0
             THEN exactLoop(toks, ticker, network, 1)
        ELSE substringLoop(toks, ticker, network, 1)

MaxTokens == 3      \* descriptors in the frozen snapshot: 0..MaxTokens

TokenPool == {usdtById, usdtOnEth, usdtOnSol, ethOnEth}

TokenLists == UNION { [1..n -> TokenPool] : n \in 0..MaxTokens }

\* the tickers and networks callers ask for; <<>> is the omitted network
AskedTickers == { <<"u", "s", "d", "t">>, <<"U", "s", "d", "T">>, <<"e", "t", "h">>,
                  <<"s", "o", "l">> }
AskedNetworks == { <<>>, <<"e", "t", "h">>, <<"E", "T", "H">>, <<"s", "o", "l">>,
                   <<"u">> }

\* a snapshot is installed and no refresh runs
InitFind ==
    /\ \E toks \in TokenLists : cache = Snapshot(toks, 1, 0)
    /\ cmu = [w |-> FALSE, r |-> 0]
    /\ cnow = 0
    /\ ctick = FALSE
    /\ fetches = 1
    /\ cop = [a \in Activities |-> IF a = Refresher THEN "refresher" ELSE "none"]
    /\ apc = [a \in Activities |-> "idle"]
    /\ built = [a \in Activities |-> NoBuild]
    /\ seen = [a \in Activities |-> {}]
    /\ ret = [a \in Activities |-> NoReturn]

\* findToken: RLock; the three loops over cache.tokens; RUnlock
FindToken(h, t, n) ==
    /\ apc[h] = "idle"
    /\ CanRLock(cmu)
    /\ ret' = [ret EXCEPT ![h] = [op |-> "findToken", ticker |-> t, network |-> n,
                                  found |-> findToken(cache.tokens.val, t, n)]]
    /\ UNCHANGED <<cache, cmu, cnow, ctick, fetches, cop, apc, built, seen>>

\* one caller at a time: the snapshot being frozen, calls do not affect each other
NextFind ==
    \E t \in AskedTickers, n \in AskedNetworks :
        FindToken(1, t, n) /\ UNCHANGED nonCache

StartFind == InitFind /\ CodecOff /\ LimiterOff /\ ExplorerOff /\ MonitorOff /\ StatsOff /\ RingOff /\ OrderOff /\ SwapOff /\ ScheduleOff /\ SlidingOff /\ ConfirmOff /\ LiveOff /\ NeverCrashed

SpecFind == StartFind /\ [][NextFind]_vars

(***************************************************************************)
(* C17.  On a frozen snapshot findToken(t, c) with a chain c returns the   *)
(* first descriptor in snapshot order whose ticker is t and whose chain is *)
(* c, letter case aside, whenever there is one, even after an earlier      *)
(* descriptor that matches only by asset-id substring; when there is none, *)
(* the first descriptor whose ticker is t and whose asset id contains c;   *)
(* with c omitted, the first descriptor whose ticker is t; otherwise nil.  *)
(***************************************************************************)
SameFold(s, t) == ToLower(s) = ToLower(t)

First(S) == IF S = {} THEN 0 ELSE CHOOSE i \in S : \A j \in S : i <= j

Expected(toks, t, c) ==
    LET byTicker == { i \in 1..Len(toks) : SameFold(toks[i].Ticker, t) }
        byChain == { i \in byTicker : SameFold(toks[i].ChainName, c) }
        byId == { i \in byTicker : Contains(ToLower(toks[i].DefuseAssetID), ToLower(c)) }
    IN  IF c = <<>> THEN First(byTicker)
        ELSE IF byChain # {} THEN First(byChain)
        ELSE First(byId)

C17_FirstExactThenSubstring ==
    \A h \in Handlers : ret[h].op = "findToken" =>
        ret[h].found = Expected(cache.tokens.val, ret[h].ticker, ret[h].network)

\* the exact chain match is returned although an earlier descriptor matches by
\* asset-id substring
C17_Witness ==
    \E h \in Handlers :
        /\ ret[h].op = "findToken"
        /\ ret[h].network = <<"e", "t", "h">>
        /\ ret[h].found = 2
        /\ cache.tokens.val[1].ChainName = <<>>
        /\ SameFold(cache.tokens.val[1].Ticker, ret[h].ticker)
        /\ Contains(ToLower(cache.tokens.val[1].DefuseAssetID), ret[h].network)
        /\ cache.tokens.val[2].ChainName = <<"E", "T", "H">>

(***************************************************************************)
(* Status queries for an order token: the web order page (handleOrder),    *)
(* its /raw form, and the bot's /status command and Refresh button         *)
(* (handleTGStatus, handleTGRefreshStatus).  A status is the string the    *)
(* upstream sent, as a sequence of characters.                             *)
(***************************************************************************)
PENDING_DEPOSIT ==
    <<"P", "E", "N", "D", "I", "N", "G", "_", "D", "E", "P", "O", "S",
     "I", "T">>
KNOWN_DEPOSIT_TX ==
    <<"K", "N", "O", "W", "N", "_", "D", "E", "P", "O", "S", "I", "T",
     "_", "T", "X">>
PROCESSING == <<"P", "R", "O", "C", "E", "S", "S", "I", "N", "G">>
SUCCESS == <<"S", "U", "C", "C", "E", "S", "S">>
REFUNDED == <<"R", "E", "F", "U", "N", "D", "E", "D">>
FAILED == <<"F", "A", "I", "L", "E", "D">>
INCOMPLETE_DEPOSIT ==
    <<"I", "N", "C", "O", "M", "P", "L", "E", "T", "E", "_", "D", "E",
     "P", "O", "S", "I", "T">>
UNKNOWN == <<"U", "N", "K", "N", "O", "W", "N">>

\* the closed set of statuses of the upstream
UpstreamStatuses ==
    {PENDING_DEPOSIT, KNOWN_DEPOSIT_TX, PROCESSING, SUCCESS, REFUNDED, FAILED,
     INCOMPLETE_DEPOSIT}

EntryPoints == {"handleOrder", "handleOrder/raw", "handleTGStatus", "handleTGRefreshStatus"}

\* how nearRequest and fetchStatus fail: transport, non-2xx, unparsable body
FetchErrors == {"request failed", "API error", "parse status response"}

NoFetch == [err |-> "", Status |-> <<>>]
NoAnswer == [entry |-> "", kind |-> "none", fetchErr |-> "", order |-> FALSE,
             Status |-> <<>>, StatusStep |-> 0, IsTerminal |-> FALSE, MetaRefresh |-> 0,
             RefreshButton |-> FALSE]

\* (mutant) a switch whose default is the processing step
statusStep_DefaultProcessing(status) ==
    IF status \in {SUCCESS, REFUNDED, FAILED, INCOMPLETE_DEPOSIT} THEN 2
    ELSE IF status = PENDING_DEPOSIT THEN 0
    ELSE 1

\* handleOrder, the switch on status.Status: statusStep
statusStep(status) ==
    CASE status = PENDING_DEPOSIT -> 0
      [] status = PROCESSING -> 1
      [] status = SUCCESS -> 2
      [] status \in {REFUNDED, FAILED, INCOMPLETE_DEPOSIT} -> 2
      [] OTHER -> 0

\* handleOrder, the switch on status.Status: isTerminal
isTerminal(status) ==
    CASE status = PENDING_DEPOSIT -> FALSE
      [] status = PROCESSING -> FALSE
      [] status = SUCCESS -> TRUE
      [] status \in {REFUNDED, FAILED, INCOMPLETE_DEPOSIT} -> TRUE
      [] OTHER -> FALSE

\* tgorder.go: isTerminalStatus
isTerminalStatus(s) == ToUpper(s) \in {SUCCESS, REFUNDED, FAILED, INCOMPLETE_DEPOSIT}

\* the status handleOrder goes on with: UNKNOWN when fetchStatus failed
statusOrUnknown(f) == IF f.err # "" THEN UNKNOWN ELSE f.Status

\* handleOrder: the order page, or the raw JSON of the status
handleOrder(entry, f) ==
    LET status == statusOrUnknown(f)
    IN  IF entry = "handleOrder/raw"
        THEN [NoAnswer EXCEPT !.entry = entry, !.kind = "raw", !.fetchErr = f.err,
                              !.Status = status]
        ELSE [entry |-> entry, kind |-> "page", fetchErr |-> f.err, order |-> TRUE,
              Status |-> status, StatusStep |-> statusStep(status),
              IsTerminal |-> isTerminal(status),
              MetaRefresh |-> IF ~isTerminal(status) THEN 10 ELSE 0,
              RefreshButton |-> FALSE]

\* handleTGStatus, handleTGRefreshStatus: the failure message, or the order card
\* of buildOrderCard with its Refresh Status button
handleTGStatus(entry, f) ==
    IF f.err # ""
    THEN [NoAnswer EXCEPT !.entry = entry, !.kind = "Status check failed",
                          !.fetchErr = f.err]
    ELSE [entry |-> entry, kind |-> "card", fetchErr |-> f.err, order |-> TRUE,
          Status |-> f.Status, StatusStep |-> 0,
          IsTerminal |-> isTerminalStatus(f.Status), MetaRefresh |-> 0,
          RefreshButton |-> ~isTerminalStatus(f.Status)]

InitOrder ==
    /\ upstreamStatus = PENDING_DEPOSIT
    /\ opc = "idle"
    /\ oentry = ""
    /\ ofetch = NoFetch
    /\ oresp = NoAnswer

\* the upstream moves the order to another status of its set
UpstreamMoves ==
    /\ \E s \in UpstreamStatuses : s # upstreamStatus /\ upstreamStatus' = s
    /\ UNCHANGED <<opc, oentry, ofetch, oresp>>

\* what an entry point answers to a token that does not decrypt
invalidAnswer(entry) ==
    CASE entry \in {"handleOrder", "handleOrder/raw"} -> "Invalid Order"
      [] entry = "handleTGStatus" -> "Invalid order token."
      [] OTHER -> "none"

\* a query with a token that does not decrypt: nothing is fetched
QueryInvalidToken(entry) ==
    /\ opc = "idle"
    /\ oresp' = [NoAnswer EXCEPT !.entry = entry, !.kind = invalidAnswer(entry)]
    /\ UNCHANGED <<upstreamStatus, opc, oentry, ofetch>>

\* a query with a token that decrypts: the entry point goes on to fetchStatus
QueryOrder(entry) ==
    /\ opc = "idle"
    /\ oentry' = entry
    /\ opc' = "fetchStatus"
    /\ ofetch' = NoFetch
    /\ UNCHANGED <<upstreamStatus, oresp>>

\* the page's meta refresh asks again, while MetaRefresh is not 0
AutoRefresh ==
    /\ opc = "idle"
    /\ oresp.kind = "page"
    /\ oresp.MetaRefresh > 0
    /\ oentry' = "handleOrder"
    /\ opc' = "fetchStatus"
    /\ ofetch' = NoFetch
    /\ UNCHANGED <<upstreamStatus, oresp>>

\* fetchStatus returns the status the upstream holds
FetchStatusReturns ==
    /\ opc = "fetchStatus"
    /\ ofetch' = [err |-> "", Status |-> upstreamStatus]
    /\ opc' = "answer"
    /\ UNCHANGED <<upstreamStatus, oentry, oresp>>

\* fetchStatus returns an error
FetchStatusFails ==
    /\ opc = "fetchStatus"
    /\ \E e \in FetchErrors : ofetch' = [err |-> e, Status |-> <<>>]
    /\ opc' = "answer"
    /\ UNCHANGED <<upstreamStatus, oentry, oresp>>

\* the entry point answers
Answer ==
    /\ opc = "answer"
    /\ oresp' = IF oentry \in {"handleOrder", "handleOrder/raw"}
                THEN handleOrder(oentry, ofetch)
                ELSE handleTGStatus(oentry, ofetch)
    /\ opc' = "idle"
    /\ UNCHANGED <<upstreamStatus, oentry, ofetch>>

NextOrder ==
    \/ UpstreamMoves /\ UNCHANGED nonOrder
    \/ \E e \in EntryPoints : QueryInvalidToken(e) /\ UNCHANGED nonOrder
    \/ \E e \in EntryPoints : QueryOrder(e) /\ UNCHANGED nonOrder
    \/ AutoRefresh /\ UNCHANGED nonOrder
    \/ FetchStatusReturns /\ UNCHANGED nonOrder
    \/ FetchStatusFails /\ UNCHANGED nonOrder
    \/ Answer /\ UNCHANGED nonOrder

StartOrder == InitOrder /\ CodecOff /\ LimiterOff /\ ExplorerOff /\ MonitorOff /\ StatsOff /\ RingOff /\ CacheOff /\ SwapOff /\ ScheduleOff /\ SlidingOff /\ ConfirmOff /\ LiveOff /\ NeverCrashed

SpecOrder == StartOrder /\ [][NextOrder]_vars

(***************************************************************************)
(* C19.  The order page maps every status of the upstream's set: step 0    *)
(* and not terminal for PENDING_DEPOSIT and KNOWN_DEPOSIT_TX, step 1 and   *)
(* not terminal for PROCESSING, step 2 and terminal for SUCCESS, REFUNDED, *)
(* FAILED and INCOMPLETE_DEPOSIT; the page refreshes itself exactly while  *)
(* the status is not terminal.                                             *)
(***************************************************************************)
C19_StepAndTerminal ==
    oresp.kind = "page" /\ oresp.fetchErr = "" =>
        /\ oresp.Status \in UpstreamStatuses
        /\ oresp.Status \in {PENDING_DEPOSIT, KNOWN_DEPOSIT_TX} =>
              oresp.StatusStep = 0 /\ ~oresp.IsTerminal
        /\ oresp.Status = PROCESSING => oresp.StatusStep = 1 /\ ~oresp.IsTerminal
        /\ oresp.Status \in {SUCCESS, REFUNDED, FAILED, INCOMPLETE_DEPOSIT} =>
              oresp.StatusStep = 2 /\ oresp.IsTerminal
        /\ oresp.MetaRefresh > 0 <=> ~oresp.IsTerminal

\* the page of an order whose deposit is known: step 0, refreshing
C19_Witness ==
    /\ oresp.kind = "page" /\ oresp.fetchErr = ""
    /\ oresp.Status = KNOWN_DEPOSIT_TX
    /\ oresp.StatusStep = 0 /\ oresp.MetaRefresh > 0
    /\ opc = "idle"

(***************************************************************************)
(* C20.  When the token decodes and fetchStatus fails, every entry point   *)
(* that answers a status query answers with the decoded order and the      *)
(* status UNKNOWN, step 0, not terminal, so that polling goes on.          *)
(***************************************************************************)
C20_UnknownEverywhere ==
    oresp.fetchErr # "" /\ oresp.entry # "handleOrder/raw" =>
        /\ oresp.order
        /\ oresp.Status = UNKNOWN
        /\ oresp.StatusStep = 0 /\ ~oresp.IsTerminal
        /\ oresp.MetaRefresh > 0 \/ oresp.RefreshButton

\* what the code gives: the web page alone falls back to UNKNOWN
C20_WebFallsBack ==
    oresp.fetchErr # "" /\ oresp.entry = "handleOrder" =>
        /\ oresp.kind = "page" /\ oresp.order
        /\ oresp.Status = UNKNOWN
        /\ oresp.StatusStep = 0 /\ ~oresp.IsTerminal
        /\ oresp.MetaRefresh > 0

(***************************************************************************)
(* amount.go: amounts as decimal strings, converted with math/big.         *)
(***************************************************************************)
\* strings.SplitN(s, sep, 2): s itself when sep is absent, else the text before
\* the first sep and the text after it
SplitN2(s, sep) ==
    IF \A i \in 1..Len(s) : s[i] # sep THEN <<s>>
    ELSE LET i == CHOOSE k \in 1..Len(s) :
                      s[k] = sep /\ \A j \in 1..(k - 1) : s[j] # sep
         IN  <<SubSeq(s, 1, i - 1), SubSeq(s, i + 1, Len(s))>>

\* strings.Repeat
Repeat(c, n) == [i \in 1..n |-> c]

\* (*big.Int).SetString(s, 10): an optional sign, then at least one digit
bigSetString(s) ==
    LET signed == s # <<>> /\ s[1] \in {"+", "-"}
        digits == IF signed THEN Tail(s) ELSE s
    IN  IF digits = <<>> \/ \E i \in 1..Len(digits) : ~IsDigit(digits[i])
        THEN [ok |-> FALSE, v |-> 0]
        ELSE [ok |-> TRUE,
              v |-> IF signed /\ s[1] = "-" THEN 0 - DecimalValue(digits)
                    ELSE DecimalValue(digits)]

RECURSIVE natString(_)
natString(n) ==
    IF n < 10 THEN <<Digits[n + 1]>>
    ELSE Append(natString(n \div 10), Digits[(n % 10) + 1])

\* (*big.Int).String()
bigString(v) == IF v < 0 THEN <<"-">> \o natString(0 - v) ELSE natString(v)

\* humanToAtomic(amount, decimals): err is "" on success
humanToAtomic(amount, decimals) ==
    LET a == TrimSpace(amount) IN
    IF a = <<>> THEN [val |-> <<>>, err |-> "empty amount"]
    ELSE LET parts == SplitN2(a, ".")
             whole == IF parts[1] = <<>> THEN <<"0">> ELSE parts[1]
             frac0 == IF Len(parts) = 2 THEN parts[2] ELSE <<>>
             frac  == IF Len(frac0) > decimals THEN SubSeq(frac0, 1, decimals)
                      ELSE frac0 \o Repeat("0", decimals - Len(frac0))
             parsed == bigSetString(whole \o frac)
         IN  IF ~parsed.ok THEN [val |-> <<>>, err |-> "invalid amount"]
             ELSE [val |-> bigString(parsed.v), err |-> ""]

RECURSIVE TrimRightZeros(_)
\* strings.TrimRight(s, "0")
TrimRightZeros(s) ==
    IF s # <<>> /\ s[Len(s)] = "0" THEN TrimRightZeros(SubSeq(s, 1, Len(s) - 1))
    ELSE s

\* fmt.Sprintf("%0*s", width, s): s padded on the left with zeros
ZeroPad(width, s) == Repeat("0", IF Len(s) < width THEN width - Len(s) ELSE 0) \o s

\* (mutant) the remainder is printed without its leading zeros
atomicToHuman_NoPad(atomic, decimals) ==
    LET val == bigSetString(atomic) IN
    IF ~val.ok THEN <<"0">>
    ELSE IF decimals = 0 THEN bigString(val.v)
    ELSE LET divisor   == 10 ^ decimals
             whole     == val.v \div divisor
             remainder == val.v % divisor
         IN  IF remainder = 0 THEN bigString(whole)
             ELSE bigString(whole) \o <<".">> \o TrimRightZeros(bigString(remainder))

\* atomicToHuman(atomic, decimals)
atomicToHuman(atomic, decimals) ==
    LET val == bigSetString(atomic) IN
    IF ~val.ok THEN <<"0">>
    ELSE IF decimals = 0 THEN bigString(val.v)
    ELSE LET divisor   == 10 ^ decimals
             whole     == val.v \div divisor
             remainder == val.v % divisor
         IN  IF remainder = 0 THEN bigString(whole)
             ELSE bigString(whole) \o <<".">>
                  \o TrimRightZeros(ZeroPad(decimals, bigString(remainder)))

\* (*big.Float).SetString(s) for a decimal numeral: an optional sign, digits
\* with at most one point and at least one digit.  neg, whole and frac describe
\* the number read.  Exponents, base prefixes and "Inf" are not modelled.
floatSetString(s) ==
    LET signed == s # <<>> /\ s[1] \in {"+", "-"}
        body   == IF signed THEN Tail(s) ELSE s
        parts  == SplitN2(body, ".")
        whole  == parts[1]
        frac   == IF Len(parts) = 2 THEN parts[2] ELSE <<>>
        digits == whole \o frac
    IN  [ok    |-> digits # <<>> /\ \A i \in 1..Len(digits) : IsDigit(digits[i]),
         neg   |-> signed /\ s[1] = "-",
         whole |-> whole, frac |-> frac]

\* (mutant) no range check on the basis points
slippageToBPS_AnyRange(pct, low) ==
    LET p == TrimSpace(pct) IN
    IF p = <<>> THEN [bps |-> 100, err |-> ""]
    ELSE LET val == floatSetString(p) IN
         IF ~val.ok THEN [bps |-> 0, err |-> "invalid slippage"]
         ELSE [bps |-> DecimalValue(val.whole) * 100, err |-> ""]

\* slippageToBPS(pct).  The product val * 100 is computed in binary floating
\* point and then truncated: when the exact product is a whole number and val
\* has no finite binary expansion, the computed product may lie just below it
\* (low), and the truncation then gives one less.
slippageToBPS(pct, low) ==
    LET p == TrimSpace(pct) IN
    IF p = <<>> THEN [bps |-> 100, err |-> ""]
    ELSE LET val == floatSetString(p) IN
         IF ~val.ok THEN [bps |-> 0, err |-> "invalid slippage"]
         ELSE LET f      == val.frac
                  cents  == SubSeq(f \o <<"0", "0">>, 1, 2)
                  exact  == DecimalValue(val.whole) * 100 + DecimalValue(cents)
                  whole  == \A i \in 3..Len(f) : f[i] = "0"
                  binary == DecimalValue(f) % (5 ^ Len(f)) = 0
                  trunc  == IF low /\ whole /\ ~binary /\ exact >= 1
                            THEN exact - 1 ELSE exact
                  int64  == IF val.neg THEN 0 - trunc ELSE trunc
              IN  IF int64 < 1 \/ int64 > 5000
                  THEN [bps |-> 0, err |-> "slippage out of range"]
                  ELSE [bps |-> int64, err |-> ""]

(***************************************************************************)
(* The conversions of amount.go applied to short strings.                  *)
(***************************************************************************)
MaxAmountLen == 4    \* the longest string converted
MaxDecimals == 2     \* the most decimal places a token has

AmountChars == {"0", "1", "5", "9", ".", " ", "-"}

AmountStrings == UNION { [1..k -> AmountChars] : k \in 0..MaxAmountLen }

Idle == [fn |-> "none"]

\* the call to be made: TestRoundTrip's conversion of an amount, or slippageToBPS
AmountCalls ==
    { [fn |-> "humanToAtomic", amount |-> x, decimals |-> d] :
          x \in AmountStrings, d \in 0..MaxDecimals }
    \cup { [fn |-> "slippageToBPS", pct |-> pct] : pct \in AmountStrings }

InitAmount ==
    swNow = 0 /\ minted = {} /\ sess = <<>> /\ swCall \in AmountCalls /\ swRet = Idle

\* TestRoundTrip: humanToAtomic, then atomicToHuman of what it returned
RoundTrip ==
    /\ swCall.fn = "humanToAtomic" /\ swRet = Idle
    /\ swRet' = LET atomic == humanToAtomic(swCall.amount, swCall.decimals)
                IN  [fn |-> "humanToAtomic", atomic |-> atomic,
                     human |-> atomicToHuman(atomic.val, swCall.decimals)]
    /\ UNCHANGED <<swNow, minted, sess, swCall>>
    /\ UNCHANGED nonSwap

CallSlippageToBPS(low) ==
    /\ swCall.fn = "slippageToBPS" /\ swRet = Idle
    /\ swRet' = [fn |-> "slippageToBPS", res |-> slippageToBPS(swCall.pct, low)]
    /\ UNCHANGED <<swNow, minted, sess, swCall>>
    /\ UNCHANGED nonSwap

NextAmount ==
    \/ RoundTrip
    \/ \E low \in BOOLEAN : CallSlippageToBPS(low)

StartAmount == InitAmount /\ CodecOff /\ LimiterOff /\ ExplorerOff /\ MonitorOff /\ StatsOff /\ RingOff /\ CacheOff /\ OrderOff /\ ScheduleOff /\ SlidingOff /\ ConfirmOff /\ LiveOff /\ NeverCrashed

SpecAmount == StartAmount /\ [][NextAmount]_vars

\* a non-negative decimal string: digits with at most one point
IsDecimal(x) ==
    /\ \A i \in 1..Len(x) : IsDigit(x[i]) \/ x[i] = "."
    /\ Cardinality({ i \in 1..Len(x) : x[i] = "." }) <= 1
    /\ \E i \in 1..Len(x) : IsDigit(x[i])

WholeOf(x) == SplitN2(x, ".")[1]
FracOf(x) == IF Len(SplitN2(x, ".")) = 2 THEN SplitN2(x, ".")[2] ELSE <<>>

RECURSIVE TrimLeftZeros(_)
TrimLeftZeros(s) == IF s # <<>> /\ s[1] = "0" THEN TrimLeftZeros(Tail(s)) ELSE s

\* no leading zeros, no trailing fractional zeros, no trailing point
Canonical(x) ==
    LET w == IF TrimLeftZeros(WholeOf(x)) = <<>> THEN <<"0">>
             ELSE TrimLeftZeros(WholeOf(x))
        f == TrimRightZeros(FracOf(x))
    IN  IF f = <<>> THEN w ELSE w \o <<".">> \o f

\* x in units of 10^-d, the digits beyond the d-th dropped
Floor(x, d) ==
    LET f == FracOf(x) IN
    DecimalValue(WholeOf(x)) * (10 ^ d)
      + (IF Len(f) > d THEN DecimalValue(f) \div (10 ^ (Len(f) - d))
         ELSE DecimalValue(f) * (10 ^ (d - Len(f))))

\* C26: a non-negative decimal string with at most d fractional digits comes
\* back from humanToAtomic and atomicToHuman in canonical form, and
\* humanToAtomic drops the digits beyond the d-th without rounding.
C26_RoundTrip ==
    (swRet.fn = "humanToAtomic" /\ IsDecimal(swCall.amount)) =>
        /\ swRet.atomic.err = ""
        /\ swRet.atomic.val = natString(Floor(swCall.amount, swCall.decimals))
        /\ Len(FracOf(swCall.amount)) <= swCall.decimals
              => swRet.human = Canonical(swCall.amount)

\* 0.01 with two decimals: one atomic unit, printed again as 0.01
C26_Witness ==
    /\ swRet.fn = "humanToAtomic"
    /\ swCall.amount = <<"0", ".", "0", "1">> /\ swCall.decimals = 2
    /\ swRet.atomic.val = <<"1">>
    /\ swRet.human = <<"0", ".", "0", "1">>

(***************************************************************************)
(* crypto.go: stateless CSRF tokens, formID ":" timestamp ":" signature.   *)
(* HMAC-SHA256 is replaced by a keyed sum whose every byte depends on the  *)
(* key, on the length of the message and on the message bytes at its own   *)
(* position: among messages of at most 12 bytes, a different message has a *)
(* different signature, which is what the code relies on.                  *)
(***************************************************************************)
Hour == 60 * Minute    \* time.Hour, in seconds

\* the characters a token is made of, and []byte(s) for each
TokenChars ==
    { Letters[i][1] : i \in 1..Len(Letters) } \cup { Letters[i][2] : i \in 1..Len(Letters) }
    \cup { Digits[i] : i \in 1..Len(Digits) } \cup {":", "-", "_"}

ByteOfChar ==
    [c \in TokenChars |->
        IF IsDigit(c) THEN 48 + DigitVal(c)
        ELSE IF \E i \in 1..Len(Letters) : Letters[i][1] = c
             THEN 96 + (CHOOSE i \in 1..Len(Letters) : Letters[i][1] = c)
        ELSE IF \E i \in 1..Len(Letters) : Letters[i][2] = c
             THEN 64 + (CHOOSE i \in 1..Len(Letters) : Letters[i][2] = c)
        ELSE IF c = "-" THEN 45 ELSE IF c = "_" THEN 95 ELSE 58]

\* the character of a 6-bit value in the URL-safe alphabet
B64Char(v) ==
    IF v < 26 THEN Letters[v + 1][2]
    ELSE IF v < 52 THEN Letters[v - 25][1]
    ELSE IF v < 62 THEN Digits[v - 51]
    ELSE IF v = 62 THEN "-" ELSE "_"

\* mac.Sum(nil) of hmac.New(sha256.New, key) after mac.Write(msg): 32 bytes
hmacSum(key, msg) ==
    LET bs == [i \in 1..Len(msg) |-> ByteOfChar[msg[i]]]
    IN  [j \in 1..KeyLen |->
            Byte(key[j] + 3 * Len(bs) + WeightedSum(bs, ((j - 1) % Overhead) + 1))]

\* base64.RawURLEncoding.EncodeToString(mac.Sum(nil))[:16]: the first 16
\* characters, which encode the first 12 bytes
signature(key, payload) ==
    LET enc == B64Encode(SubSeq(hmacSum(key, payload), 1, 12))
    IN  [k \in 1..16 |-> B64Char(enc[k].v)]

\* the digits of strconv.FormatInt(n, 36) and the value ParseInt gives each
\* character (-1: not a digit); ParseInt takes letters of either case
Base36 == Digits \o [i \in 1..Len(Letters) |-> Letters[i][1]]

Digit36 ==
    [c \in TokenChars |->
        IF \E i \in 1..Len(Base36) : Base36[i] = LowerOf(c)
        THEN (CHOOSE i \in 1..Len(Base36) : Base36[i] = LowerOf(c)) - 1
        ELSE 0 - 1]

RECURSIVE FormatInt36(_)
\* strconv.FormatInt(n, 36) of n >= 0
FormatInt36(n) ==
    IF n < 36 THEN <<Base36[n + 1]>>
    ELSE Append(FormatInt36(n \div 36), Base36[(n % 36) + 1])

RECURSIVE Value36(_)
Value36(s) ==
    IF s = <<>> THEN 0
    ELSE 36 * Value36(SubSeq(s, 1, Len(s) - 1)) + Digit36[s[Len(s)]]

\* strconv.ParseInt(s, 36, 64): an optional sign, then at least one digit
ParseInt36(s) ==
    LET signed == s # <<>> /\ s[1] \in {"+", "-"}
        digits == IF signed THEN Tail(s) ELSE s
    IN  IF digits = <<>> \/ \E i \in 1..Len(digits) : Digit36[digits[i]] < 0
        THEN [ok |-> FALSE, v |-> 0]
        ELSE [ok |-> TRUE,
              v |-> IF signed /\ s[1] = "-" THEN 0 - Value36(digits)
                    ELSE Value36(digits)]

\* time.Now().UnixMilli()
UnixMilli(t) == t * 1000

\* generateCSRFToken(formID) at time t, the process key being key
generateCSRFToken(key, formID, t) ==
    LET ts      == FormatInt36(UnixMilli(t))
        payload == formID \o <<":">> \o ts
    IN  payload \o <<":">> \o signature(key, payload)

\* strings.SplitN(token, ":", 3)
SplitN3(token) ==
    LET a == SplitN2(token, ":") IN
    IF Len(a) = 1 THEN a ELSE <<a[1]>> \o SplitN2(a[2], ":")

\* (mutant) the form id of the token is not compared
verifyCSRFToken_AnyForm(key, token, formID, maxAge, t) ==
    LET parts == SplitN3(token) IN
    IF Len(parts) # 3 THEN FALSE
    ELSE LET timestamp == ParseInt36(parts[2]) IN
         IF ~timestamp.ok THEN FALSE
         ELSE IF UnixMilli(t) - timestamp.v > UnixMilli(maxAge) THEN FALSE
         ELSE parts[3] = signature(key, parts[1] \o <<":">> \o parts[2])

\* verifyCSRFToken(token, formID, maxAge) at time t
verifyCSRFToken(key, token, formID, maxAge, t) ==
    LET parts == SplitN3(token) IN
    IF Len(parts) # 3 THEN FALSE
    ELSE LET fid == parts[1]
             ts  == parts[2]
             sig == parts[3]
             timestamp == ParseInt36(ts)
         IN  IF fid # formID THEN FALSE
             ELSE IF ~timestamp.ok THEN FALSE
             ELSE IF UnixMilli(t) - timestamp.v > UnixMilli(maxAge) THEN FALSE
             ELSE sig = signature(key, fid \o <<":">> \o ts)

(***************************************************************************)
(* Tokens are generated as time passes; one token, genuine or with one     *)
(* character changed or appended, is then verified for one of the forms.   *)
(* A verification changes nothing, so a behaviour ends with it.            *)
(***************************************************************************)
MaxMinted == 2    \* how many tokens are generated
MaxDrift == 1     \* the seconds looked at after the start and after one hour

QuoteForm == <<"q", "u", "o", "t", "e">>   \* generateCSRFToken("quote")
SwapForm == <<"s", "w", "a", "p">>         \* generateCSRFToken("swap")
FormIDs == {QuoteForm, SwapForm}

TamperChars == {"x", "0", ":"}

InitCSRF == swNow = 0 /\ minted = {} /\ sess = <<>> /\ swCall = Idle /\ swRet = Idle

\* a page hands out a token for its form
GenerateCSRFToken(f) ==
    /\ swRet = Idle /\ Cardinality(minted) < MaxMinted
    /\ minted' = minted \cup
          {[form |-> f, at |-> swNow, token |-> generateCSRFToken(orderKey, f, swNow)]}
    /\ UNCHANGED <<swNow, sess, swCall, swRet>>
    /\ UNCHANGED nonSwap

\* the times looked at: the first seconds, and those around one hour later
CSRFTimes == (0..MaxDrift) \cup (Hour..(Hour + MaxDrift))

\* time passes, up to t
CSRFElapse(t) ==
    /\ swRet = Idle /\ t > swNow
    /\ swNow' = t
    /\ UNCHANGED <<minted, sess, swCall, swRet>>
    /\ UNCHANGED nonSwap

VerifyCSRFToken(token, g) ==
    /\ swRet = Idle
    /\ swCall' = [fn |-> "verifyCSRFToken", token |-> token, formID |-> g]
    /\ swRet' = [fn |-> "verifyCSRFToken",
                 ok |-> verifyCSRFToken(orderKey, token, g, Hour, swNow)]
    /\ UNCHANGED <<swNow, minted, sess>>
    /\ UNCHANGED nonSwap

VerifyGenuine(g) == \E m \in minted : VerifyCSRFToken(m.token, g)

VerifyChanged(g) ==
    \E m \in minted : \E pos \in 1..Len(m.token) :
      \E c \in TamperChars \cup {UpperOf(m.token[pos])} :
        /\ m.token[pos] # c
        /\ VerifyCSRFToken([m.token EXCEPT ![pos] = c], g)

VerifyAppended(g) ==
    \E m \in minted, c \in TamperChars : VerifyCSRFToken(Append(m.token, c), g)

NextCSRF ==
    \/ \E f \in FormIDs : GenerateCSRFToken(f)
    \/ \E t \in CSRFTimes : CSRFElapse(t)
    \/ \E g \in FormIDs : VerifyGenuine(g)
    \/ \E g \in FormIDs : VerifyChanged(g)
    \/ \E g \in FormIDs : VerifyAppended(g)

StartCSRF == InitCSRF /\ InitTamper /\ LimiterOff /\ ExplorerOff /\ MonitorOff /\ StatsOff /\ RingOff /\ CacheOff /\ OrderOff /\ ScheduleOff /\ SlidingOff /\ ConfirmOff /\ LiveOff /\ NeverCrashed

SpecCSRF == StartCSRF /\ [][NextCSRF]_vars

\* C27: a token is accepted for form g exactly when it is, character for
\* character, a token that was generated for g at most maxAge ago; so a token
\* of another form, an older one, or one with a character changed or
\* appended, is rejected.
C27_AcceptedIffSameForm ==
    swRet.fn = "verifyCSRFToken" =>
        (swRet.ok <=> \E m \in minted :
                          /\ m.token = swCall.token
                          /\ m.form = swCall.formID
                          /\ swNow - m.at <= Hour)

\* a quote token exactly one hour old is accepted by the quote form
C27_Witness ==
    /\ swRet.fn = "verifyCSRFToken" /\ swRet.ok
    /\ swCall.formID = QuoteForm
    /\ \E m \in minted : m.token = swCall.token /\ swNow - m.at = Hour

(***************************************************************************)
(* The swap flow of the web pages: handleQuote (preview) and               *)
(* handleSwapConfirm (binding order), each from the verdict of the rate    *)
(* limiter on, and the upstream quote endpoint they call.                  *)
(***************************************************************************)
\* the token cache the handlers look tokens up in, and the decimals of each
SwapTokens == <<normalize(ethOnEth), normalize(usdtOnEth), normalize(usdtOnSol)>>
Decimals == <<3, 2, 2>>

\* buildDeadline(d) at time t; a time is written as its seconds
buildDeadline(t, d) == natString(t + d)

\* what the upstream answers to POST /v0/quote: an error, or a quote with an
\* output amount and a deadline that is upstream's own or the proposed one
UpstreamAnswers ==
    { [err |-> TRUE, amountOut |-> <<>>, own |-> FALSE] }
    \cup { [err |-> FALSE, amountOut |-> out, own |-> own] :
              out \in {<<"0">>, <<"1", "4", "9">>, <<"1", "5", "0">>}, own \in BOOLEAN }

UpstreamDeadline == <<"9", "0", "0">>
DepositAddress == <<"0", "x", "d">>
CorrelationID == <<"c", "1">>

\* nearRequest("POST", "/v0/quote", req): the request goes out and the answer
\* comes back; the upstream gives a deposit address to a binding request only,
\* and formats the amount out it quotes (two decimals in the model)
nearRequest(req, a) ==
    [sent |-> <<req>>, err |-> a.err,
     Quote |-> [AmountOut |-> a.amountOut,
                AmountInFmt |-> <<"1", ".", "5">>,
                AmountOutFmt |-> atomicToHuman(a.amountOut, 2),
                Deadline |-> IF a.own THEN UpstreamDeadline ELSE req.Deadline,
                DepositAddress |-> IF req.Dry THEN <<>> ELSE DepositAddress],
     CorrelationID |-> CorrelationID]

\* (mutant) the request goes out as the caller built it
requestDryQuote_AsBuilt(req, a) == nearRequest(req, a)

\* requestDryQuote(req), requestQuote(req)
requestDryQuote(req, a) == nearRequest([req EXCEPT !.Dry = TRUE], a)
requestQuote(req, a) == nearRequest([req EXCEPT !.Dry = FALSE], a)

NothingSent == <<>>

\* what a handler did: the page it rendered and its HTTP code, how many times
\* it called findToken, the requests it sent upstream, the deposit address the
\* upstream gave, the deadline it set and the amounts it quoted, the CSRF token
\* of the page, the order it sealed and the token it redirected to
Outcome(fn, code, page, lookups, sent) ==
    [fn |-> fn, code |-> code, page |-> page, lookups |-> lookups, sent |-> sent,
     deposit |-> <<>>, deadline |-> <<>>, amountIn |-> <<>>, amountOut |-> <<>>,
     csrf |-> <<>>, order |-> ZeroOrderData, token |-> <<>>]

\* (mutant) the refund address is not required
validation_NoRefund(amount, recipient, refundAddr) ==
    (IF amount = <<>> THEN <<"Amount is required">> ELSE <<>>)
    \o (IF recipient = <<>> THEN <<"Recipient address is required">> ELSE <<>>)

\* handleQuote, "Validation": the errors found
validation(amount, recipient, refundAddr) ==
    (IF amount = <<>> THEN <<"Amount is required">> ELSE <<>>)
    \o (IF recipient = <<>> THEN <<"Recipient address is required">> ELSE <<>>)
    \o (IF refundAddr = <<>> THEN <<"Refund address is required">> ELSE <<>>)

\* handleQuote, from the answer of requestDryQuote on
quoteAnswered(t, dryResp) ==
    IF dryResp.err
    THEN Outcome("handleQuote", 502, "Quote Failed", 2, dryResp.sent)
    ELSE IF dryResp.Quote.AmountOut \in {<<>>, <<"0">>}
    THEN [Outcome("handleQuote", 502, "Quote Unavailable", 2, dryResp.sent)
            EXCEPT !.deposit = dryResp.Quote.DepositAddress]
    ELSE [Outcome("handleQuote", 200, "quote.html", 2, dryResp.sent)
            EXCEPT !.deposit = dryResp.Quote.DepositAddress,
                   !.csrf = generateCSRFToken(orderKey, SwapForm, t)]

\* handleQuote, from the two token lookups, humanToAtomic and slippageToBPS on
quoteConverted(t, a, recipient, refundAddr, fromToken, toToken, atomic, slippage) ==
    IF fromToken = 0 \/ toToken = 0
    THEN Outcome("handleQuote", 400, "Unknown Token", 2, NothingSent)
    ELSE IF atomic.err # ""
    THEN Outcome("handleQuote", 400, "Invalid Amount", 2, NothingSent)
    ELSE quoteAnswered(t,
             requestDryQuote(
                 [Dry |-> TRUE,
                  SlippageTolerance |-> IF slippage.err # "" THEN 100 ELSE slippage.bps,
                  OriginAsset |-> SwapTokens[fromToken].DefuseAssetID,
                  DestinationAsset |-> SwapTokens[toToken].DefuseAssetID,
                  Amount |-> atomic.val, RefundTo |-> refundAddr,
                  Recipient |-> recipient, Deadline |-> buildDeadline(t, Hour)],
                 a))

quoteFound(form, t, a, recipient, refundAddr, fromToken, toToken) ==
    quoteConverted(t, a, recipient, refundAddr, fromToken, toToken,
                   humanToAtomic(form.amount, Decimals[fromToken]),
                   slippageToBPS(form.slippage, FALSE))

\* handleQuote, from "Validation" on
quoteValidated(form, t, a, recipient, refundAddr) ==
    IF Len(validation(form.amount, recipient, refundAddr)) > 0
    THEN Outcome("handleQuote", 400, "Validation Error", 0, NothingSent)
    ELSE quoteFound(form, t, a, recipient, refundAddr,
                    findToken(SwapTokens, ToUpper(form.from), form.from_net),
                    findToken(SwapTokens, ToUpper(form.to), form.to_net))

\* handleQuote, after clientIP: admitted is the verdict of limiter.allow
handleQuote(form, t, admitted, a) ==
    IF ~admitted
    THEN Outcome("handleQuote", 429, "Too Many Requests", 0, NothingSent)
    ELSE IF ~verifyCSRFToken(orderKey, form.csrf, QuoteForm, Hour, t)
    THEN Outcome("handleQuote", 403, "Invalid Request", 0, NothingSent)
    ELSE quoteValidated(form, t, a, TrimSpace(form.recipient), TrimSpace(form.refund_addr))

\* (mutant) the order keeps the deadline that was proposed
orderDeadline_Proposed(quoteReq, quoteResp) == quoteReq.Deadline

\* OrderData{Deadline: quoteResp.Quote.Deadline}
orderDeadline(quoteReq, quoteResp) == quoteResp.Quote.Deadline

\* fmt.Sscanf(s, "%d", &bps): leading spaces, an optional sign, digits; bps
\* keeps its value when no number is there
RECURSIVE digitPrefix(_)
digitPrefix(s) ==
    IF s = <<>> \/ ~IsDigit(s[1]) THEN <<>> ELSE <<s[1]>> \o digitPrefix(Tail(s))

RECURSIVE Sscanf(_, _)
Sscanf(s, bps) ==
    IF s # <<>> /\ s[1] = " " THEN Sscanf(Tail(s), bps)
    ELSE LET signed == s # <<>> /\ s[1] \in {"+", "-"}
             digits == digitPrefix(IF signed THEN Tail(s) ELSE s)
         IN  IF digits = <<>> THEN bps
             ELSE IF signed /\ s[1] = "-" THEN 0 - DecimalValue(digits)
             ELSE DecimalValue(digits)

\* handleSwapConfirm, from encryptOrderData on
swapSealed(quoteResp, orderData, iv) ==
    [Outcome("handleSwapConfirm", 302, "/order/", 2, quoteResp.sent)
       EXCEPT !.deposit = quoteResp.Quote.DepositAddress,
              !.deadline = quoteResp.Quote.Deadline,
              !.amountIn = quoteResp.Quote.AmountInFmt,
              !.amountOut = quoteResp.Quote.AmountOutFmt,
              !.order = orderData, !.token = encryptOrderData(orderData, iv)]

\* handleSwapConfirm, from the answer of requestQuote on
swapAnswered(form, fromTicker, toTicker, quoteReq, quoteResp, iv) ==
    IF quoteResp.err
    THEN Outcome("handleSwapConfirm", 502, "Swap Failed", 2, quoteResp.sent)
    ELSE swapSealed(quoteResp,
             [ZeroOrderData EXCEPT
                 !["DepositAddr"] = quoteResp.Quote.DepositAddress,
                 !["FromTicker"] = fromTicker, !["FromNet"] = form.from_net,
                 !["ToTicker"] = toTicker, !["ToNet"] = form.to_net,
                 !["AmountIn"] = form.amount_in,
                 !["AmountOut"] = form.amount_out,
                 !["Deadline"] = orderDeadline(quoteReq, quoteResp),
                 !["CorrID"] = quoteResp.CorrelationID],
             iv)

swapRequested(form, fromTicker, toTicker, a, iv, quoteReq) ==
    swapAnswered(form, fromTicker, toTicker, quoteReq, requestQuote(quoteReq, a), iv)

\* handleSwapConfirm, from the two token lookups on
swapFound(form, t, a, iv, fromTicker, toTicker, fromToken, toToken) ==
    IF fromToken = 0 \/ toToken = 0
    THEN Outcome("handleSwapConfirm", 400, "Unknown Token", 2, NothingSent)
    ELSE swapRequested(form, fromTicker, toTicker, a, iv,
             [Dry |-> FALSE,
              SlippageTolerance |-> Sscanf(form.slippage_bps, 100),
              OriginAsset |-> SwapTokens[fromToken].DefuseAssetID,
              DestinationAsset |-> SwapTokens[toToken].DefuseAssetID,
              Amount |-> form.atomic_amount, RefundTo |-> form.refund_addr,
              Recipient |-> form.recipient, Deadline |-> buildDeadline(t, Hour)])

swapTickers(form, t, a, iv, fromTicker, toTicker) ==
    swapFound(form, t, a, iv, fromTicker, toTicker,
              findToken(SwapTokens, fromTicker, form.from_net),
              findToken(SwapTokens, toTicker, form.to_net))

\* handleSwapConfirm, after clientIP; iv is what rand.Read gives encryptOrderData
handleSwapConfirm(form, t, admitted, a, iv) ==
    IF ~admitted
    THEN Outcome("handleSwapConfirm", 429, "Too Many Requests", 0, NothingSent)
    ELSE IF ~verifyCSRFToken(orderKey, form.csrf, SwapForm, Hour, t)
    THEN Outcome("handleSwapConfirm", 403, "Invalid Request", 0, NothingSent)
    ELSE swapTickers(form, t, a, iv, ToUpper(form.from), ToUpper(form.to))

(***************************************************************************)
(* A browser: it loads the pages, which hand out CSRF tokens, and posts    *)
(* the two forms with the tokens it was given or with another one.         *)
(***************************************************************************)
Later == Hour + 1     \* a time at which a token of time 0 has expired

Eth == <<"e", "t", "h">>
Usdt == <<"u", "s", "d", "t">>
Nope == <<"n", "o", "p", "e">>
Recipient == <<"0", "x", "a">>
RefundTo == <<"0", "x", "f">>
BadCSRF == <<"x">>

PresentedCSRF == { m.token : m \in minted } \cup {BadCSRF}

QuoteFormOf(csrf, from, amount, recipient, refund, slippage) ==
    [csrf |-> csrf, from |-> from, from_net |-> Eth, to |-> Usdt, to_net |-> Eth,
     amount |-> amount, recipient |-> recipient, refund_addr |-> refund,
     slippage |-> slippage]

\* the quote forms posted: every combination of token, source ticker, amount
\* and addresses, and the complete form with each slippage
QuoteForms ==
    { QuoteFormOf(c, f, am, r, rf, <<"1">>) :
          c \in PresentedCSRF, f \in {Eth, Nope},
          am \in {<<>>, <<" ">>, <<"1", ".", "5">>},
          r \in {<<>>, <<" ">>, Recipient}, rf \in {<<>>, RefundTo} }
    \cup { QuoteFormOf(c, Eth, <<"1", ".", "5">>, Recipient, RefundTo, sl) :
          c \in PresentedCSRF,
          sl \in {<<>>, <<"0">>, <<"0", ".", "5">>, <<"9", "9">>, <<"x">>} }

SwapFormOf(csrf, from, atomic, recipient, refund, bps) ==
    [csrf |-> csrf, from |-> from, from_net |-> Eth, to |-> Usdt, to_net |-> Eth,
     atomic_amount |-> atomic, recipient |-> recipient, refund_addr |-> refund,
     slippage_bps |-> bps, amount_in |-> <<"1", ".", "5">>,
     amount_out |-> <<"1", ".", "5">>]

\* the confirmation forms posted (the hidden fields of quote.html, which the
\* client may have changed)
SwapForms ==
    { SwapFormOf(c, f, am, r, rf, <<"1", "0", "0">>) :
          c \in PresentedCSRF, f \in {Eth, Nope},
          am \in {<<>>, <<"1", "5", "0", "0">>},
          r \in {<<>>, Recipient}, rf \in {<<>>, RefundTo} }
    \cup { SwapFormOf(c, Eth, <<"1", "5", "0", "0">>, Recipient, RefundTo, bps) :
          c \in PresentedCSRF,
          bps \in {<<>>, <<"0">>, <<"-", "5">>, <<"9", "9", "9", "9">>, <<"x">>} }

\* tgSessions.get: the session made for a chat that has none
NewSession ==
    [State |-> "stateIdle", FromTicker |-> <<>>, FromNet |-> <<>>, ToTicker |-> <<>>,
     ToNet |-> <<>>, Amount |-> <<>>, RefundAddr |-> <<>>, RecvAddr |-> <<>>,
     Slippage |-> <<"1">>, PickSide |-> "", OrderToken |-> <<>>]

InitSwap == swNow = 0 /\ minted = {} /\ sess = NewSession /\ swCall = Idle /\ swRet = Idle

\* no request is being handled, and the browser is the client of this behaviour
WebIdle == swRet = Idle /\ sess = NewSession

\* handleIndex: the swap page, with a CSRF token for the quote form
IndexPage ==
    /\ WebIdle
    /\ minted' = minted \cup
          {[form |-> QuoteForm, at |-> swNow,
            token |-> generateCSRFToken(orderKey, QuoteForm, swNow)]}
    /\ UNCHANGED <<swNow, sess, swCall, swRet>>
    /\ UNCHANGED nonSwap

\* more than an hour passes
SwapElapse ==
    /\ WebIdle /\ swNow < Later
    /\ swNow' = Later
    /\ UNCHANGED <<minted, sess, swCall, swRet>>
    /\ UNCHANGED nonSwap

\* POST /quote
PreviewQuote(form, admitted, a) ==
    /\ WebIdle
    /\ swCall' = [fn |-> "handleQuote", form |-> form, admitted |-> admitted]
    /\ swRet' = handleQuote(form, swNow, admitted, a)
    /\ minted' = IF swRet'.csrf = <<>> THEN minted
                 ELSE minted \cup {[form |-> SwapForm, at |-> swNow, token |-> swRet'.csrf]}
    /\ UNCHANGED <<swNow, sess>>
    /\ UNCHANGED nonSwap

\* POST /swap
PlaceOrder(form, admitted, a, iv) ==
    /\ WebIdle
    /\ swCall' = [fn |-> "handleSwapConfirm", form |-> form, admitted |-> admitted]
    /\ swRet' = handleSwapConfirm(form, swNow, admitted, a, iv)
    /\ UNCHANGED <<swNow, minted, sess>>
    /\ UNCHANGED nonSwap

\* the response has gone out
ResponseWritten ==
    /\ swRet # Idle
    /\ swCall' = Idle /\ swRet' = Idle
    /\ UNCHANGED <<swNow, minted, sess>>
    /\ UNCHANGED nonSwap

NextSwap ==
    \/ IndexPage
    \/ SwapElapse
    \/ WebIdle /\ \E form \in QuoteForms, admitted \in BOOLEAN, a \in UpstreamAnswers :
                     PreviewQuote(form, admitted, a)
    \/ WebIdle /\ \E form \in SwapForms, admitted \in BOOLEAN, a \in UpstreamAnswers,
                        iv \in IVs :
                     PlaceOrder(form, admitted, a, iv)
    \/ ResponseWritten

StartSwap == InitSwap /\ InitTamper /\ LimiterOff /\ ExplorerOff /\ MonitorOff /\ StatsOff /\ RingOff /\ CacheOff /\ OrderOff /\ ScheduleOff /\ SlidingOff /\ ConfirmOff /\ LiveOff /\ NeverCrashed

SpecSwap == StartSwap /\ [][NextSwap]_vars

\* C21: a preview with an empty amount, recipient or refund address that the
\* limiter admitted ends in "Validation Error" (400) if its CSRF token is
\* valid and in "Invalid Request" (403) if it is not, in both cases without a
\* call of findToken; and a request refused with 400 or 403 sent nothing
\* upstream.
C21_ValidationBeforeLookup ==
    (swRet.fn = "handleQuote" /\ swCall.admitted) =>
        LET form  == swCall.form
            empty == \/ form.amount = <<>>
                     \/ TrimSpace(form.recipient) = <<>>
                     \/ TrimSpace(form.refund_addr) = <<>>
            valid == \E m \in minted : /\ m.token = form.csrf /\ m.form = QuoteForm
                                       /\ swNow - m.at <= Hour
        IN  /\ ~valid => swRet.code = 403 /\ swRet.lookups = 0
            /\ (valid /\ empty) =>
                  swRet.code = 400 /\ swRet.page = "Validation Error" /\ swRet.lookups = 0
            /\ swRet.code \in {400, 403} => swRet.sent = NothingSent

\* a valid token, an amount, a recipient, no refund address: 400
C21_Witness ==
    /\ swRet.fn = "handleQuote" /\ swCall.admitted
    /\ swCall.form.amount # <<>> /\ swCall.form.recipient = Recipient
    /\ swCall.form.refund_addr = <<>>
    /\ \E m \in minted : m.token = swCall.form.csrf /\ m.form = QuoteForm
    /\ swRet.code = 400 /\ swRet.page = "Validation Error"

\* C24: every request handleQuote sends is a dry one and the upstream gives
\* it no deposit address; every request handleSwapConfirm sends is a binding
\* one; and requestDryQuote sends dry = true, requestQuote dry = false,
\* whatever the request handed to them says.
C24_PreviewIsDry ==
    swRet.fn \in {"handleQuote", "handleSwapConfirm"} =>
        /\ swRet.fn = "handleQuote" =>
              /\ \A i \in 1..Len(swRet.sent) : swRet.sent[i].Dry
              /\ swRet.deposit = <<>>
        /\ swRet.fn = "handleSwapConfirm" =>
              \A i \in 1..Len(swRet.sent) : ~swRet.sent[i].Dry
        /\ \A i \in 1..Len(swRet.sent), dry \in BOOLEAN, a \in UpstreamAnswers :
              LET req == [swRet.sent[i] EXCEPT !.Dry = dry]
              IN  /\ requestDryQuote(req, a).sent[1].Dry
                  /\ ~requestQuote(req, a).sent[1].Dry

\* a preview that was answered: one dry request, a quote page, no deposit address
C24_Witness ==
    /\ swRet.fn = "handleQuote" /\ swRet.code = 200
    /\ Len(swRet.sent) = 1 /\ swRet.sent[1].Dry
    /\ swRet.deposit = <<>>

(***************************************************************************)
(* The swap flow of the Telegram bot: one chat, its tgSession, the button  *)
(* presses (callback data) and the texts it sends.                         *)
(***************************************************************************)
\* the token cache the bot looks tokens up in, and the decimals of each
BotTokens ==
    <<normalize(TokenInfo(<<"b", "t", "c">>, <<"B", "T", "C">>, <<>>, <<"b", "t", "c">>, 9)),
      normalize(ethOnEth), normalize(usdtOnEth), normalize(usdtOnSol)>>
BotDecimals == <<8, 3, 2, 2>>

\* (sess *tgSession) reset(), then State = stateSwapCard: /start
TGStartSession ==
    [State |-> "stateSwapCard", FromTicker |-> <<"B", "T", "C">>,
     FromNet |-> <<"b", "t", "c">>, ToTicker |-> <<"E", "T", "H">>, ToNet |-> Eth,
     Amount |-> <<>>, RefundAddr |-> <<>>, RecvAddr |-> <<>>, Slippage |-> <<"1">>,
     PickSide |-> "", OrderToken |-> <<>>]

\* (sess *tgSession) isComplete()
isComplete(s) ==
    /\ s.FromTicker # <<>> /\ s.ToTicker # <<>>
    /\ s.Amount # <<>> /\ s.RefundAddr # <<>> /\ s.RecvAddr # <<>>

\* the QuoteRequest of handleTGGetQuote and handleTGConfirmSwap
TGQuoteRequest(s, dry, fromToken, toToken, atomic, t) ==
    [Dry |-> dry, SlippageTolerance |-> slippageToBPS(s.Slippage, FALSE).bps,
     OriginAsset |-> BotTokens[fromToken].DefuseAssetID,
     DestinationAsset |-> BotTokens[toToken].DefuseAssetID,
     Amount |-> atomic, RefundTo |-> s.RefundAddr, Recipient |-> s.RecvAddr,
     Deadline |-> buildDeadline(t, Hour)]

\* handleTGGetQuote, from the answer of requestDryQuote on
\* showErrorAndCard: the session goes back to the swap card, inputs kept
showErrorAndCard(s) == [s EXCEPT !.State = "stateSwapCard"]

tgQuoteAnswered(s, dryResp) ==
    IF dryResp.err
    THEN [sess |-> showErrorAndCard(s),
          out |-> Outcome("handleTGGetQuote", 0, "Quote failed", 2, dryResp.sent)]
    ELSE [sess |-> [s EXCEPT !.State = "stateQuoteConfirm"],
          out |-> [Outcome("handleTGGetQuote", 0, "quote card", 2, dryResp.sent)
                     EXCEPT !.deposit = dryResp.Quote.DepositAddress]]

\* handleTGGetQuote, from the two token lookups and humanToAtomic on
tgQuoteConverted(s, t, a, fromToken, toToken, atomic) ==
    IF fromToken = 0 \/ toToken = 0
    THEN [sess |-> showErrorAndCard(s),
          out |-> Outcome("handleTGGetQuote", 0, "Token not found", 2, NothingSent)]
    ELSE IF atomic.err # ""
    THEN [sess |-> showErrorAndCard(s),
          out |-> Outcome("handleTGGetQuote", 0, "Invalid amount", 2, NothingSent)]
    ELSE tgQuoteAnswered(s,
             requestDryQuote(TGQuoteRequest(s, TRUE, fromToken, toToken, atomic.val, t), a))

tgQuoteFound(s, t, a, fromToken, toToken) ==
    tgQuoteConverted(s, t, a, fromToken, toToken,
                     humanToAtomic(s.Amount, BotDecimals[fromToken]))

\* handleTGGetQuote(chatID, sess): the session afterwards and what was done
handleTGGetQuote(s, t, a) ==
    IF ~isComplete(s)
    THEN [sess |-> s, out |-> Outcome("handleTGGetQuote", 0, "", 0, NothingSent)]
    ELSE tgQuoteFound(s, t, a, findToken(BotTokens, s.FromTicker, s.FromNet),
                               findToken(BotTokens, s.ToTicker, s.ToNet))

\* handleTGConfirmSwap, from encryptOrderData on
tgOrderSealed(s, quoteResp, order, orderToken) ==
    [sess |-> [s EXCEPT !.OrderToken = orderToken, !.State = "stateOrderActive"],
     out |-> [Outcome("handleTGConfirmSwap", 0, "deposit card", 2, quoteResp.sent)
                EXCEPT !.deposit = quoteResp.Quote.DepositAddress,
                       !.deadline = quoteResp.Quote.Deadline,
                       !.amountIn = quoteResp.Quote.AmountInFmt,
                       !.amountOut = quoteResp.Quote.AmountOutFmt,
                       !.order = order, !.token = orderToken]]

tgOrderBuilt(s, quoteResp, order, iv) ==
    tgOrderSealed(s, quoteResp, order, encryptOrderData(order, iv))

\* handleTGConfirmSwap, from the answer of requestQuote on
tgOrderAnswered(s, quoteReq, quoteResp, iv) ==
    IF quoteResp.err
    THEN [sess |-> showErrorAndCard(s),
          out |-> Outcome("handleTGConfirmSwap", 0, "Order failed", 2, quoteResp.sent)]
    ELSE tgOrderBuilt(s, quoteResp,
             [ZeroOrderData EXCEPT
                 !["DepositAddr"] = quoteResp.Quote.DepositAddress,
                 !["FromTicker"] = s.FromTicker, !["FromNet"] = s.FromNet,
                 !["ToTicker"] = s.ToTicker, !["ToNet"] = s.ToNet,
                 !["AmountIn"] = quoteResp.Quote.AmountInFmt,
                 !["AmountOut"] = quoteResp.Quote.AmountOutFmt,
                 !["Deadline"] = orderDeadline(quoteReq, quoteResp),
                 !["CorrID"] = quoteResp.CorrelationID],
             iv)

tgOrderRequested(s, a, iv, quoteReq) ==
    tgOrderAnswered(s, quoteReq, requestQuote(quoteReq, a), iv)

\* handleTGConfirmSwap, from the two token lookups and humanToAtomic on
tgOrderConverted(s, t, a, iv, fromToken, toToken, atomic) ==
    IF fromToken = 0 \/ toToken = 0 \/ atomic.err # ""
    THEN [sess |-> s, out |-> Outcome("handleTGConfirmSwap", 0, "", 2, NothingSent)]
    ELSE tgOrderRequested(s, a, iv,
             TGQuoteRequest(s, FALSE, fromToken, toToken, atomic.val, t))

tgOrderFound(s, t, a, iv, fromToken, toToken) ==
    tgOrderConverted(s, t, a, iv, fromToken, toToken,
                     humanToAtomic(s.Amount, BotDecimals[fromToken]))

\* handleTGConfirmSwap(chatID, sess)
handleTGConfirmSwap(s, t, a, iv) ==
    IF s.State # "stateQuoteConfirm"
    THEN [sess |-> s, out |-> Outcome("handleTGConfirmSwap", 0, "", 0, NothingSent)]
    ELSE tgOrderFound(s, t, a, iv, findToken(BotTokens, s.FromTicker, s.FromNet),
                                   findToken(BotTokens, s.ToTicker, s.ToNet))

\* handleTGMessage with a text that is no command: by sess.State,
\* handleTGAmountInput, handleTGRefundInput or handleTGRecvInput
handleTGMessage(s, text) ==
    LET txt == TrimSpace(text) IN
    CASE s.State = "stateEnterAmount" ->
            IF humanToAtomic(txt, 8).err # "" THEN s
            ELSE [s EXCEPT !.Amount = txt, !.State = "stateSwapCard"]
      [] s.State = "stateEnterRefund" ->
            IF Len(txt) < 10 THEN s
            ELSE [s EXCEPT !.RefundAddr = txt, !.State = "stateSwapCard"]
      [] s.State = "stateEnterRecv" ->
            IF Len(txt) < 10 THEN s
            ELSE [s EXCEPT !.RecvAddr = txt, !.State = "stateSwapCard"]
      [] OTHER -> s

AddrA == <<"0", "x", "a", "a", "a", "a", "a", "a", "a", "a">>
AddrB == <<"0", "x", "a", "a", "a", "a", "a", "a", "a", "0">>
Texts == {<<"1", ".", "5">>, <<"x">>, AddrA, AddrB}
\* the values after "sl:" in callback data: those of the buttons, and others
SlippageData == {<<"0", ".", "5">>, <<"1">>, <<"x">>, <<"9", "9">>}

\* no request is being handled, and the chat is the client of this behaviour
BotIdle == swRet = Idle /\ minted = {} /\ swNow = 0

\* an update that changes the session only: /start, the callbacks "sa", "sr",
\* "sp" (a prompt), "sl:" (slippage) and "sw" (direction), and a text
SessionUpdate(s) ==
    /\ BotIdle
    /\ sess' = s /\ s # sess
    /\ UNCHANGED <<swNow, minted, swCall, swRet>>
    /\ UNCHANGED nonSwap

TGStart == SessionUpdate(TGStartSession)

\* handleTGPromptAmount, handleTGPromptRefund, handleTGPromptRecv
handleTGPrompt(s, st) == [s EXCEPT !.State = st]

\* (mutant) the slippage is set and the session stays in the state it is in
handleTGSetSlippage_InPlace(s, value) == [s EXCEPT !.Slippage = value]

\* handleTGSetSlippage
handleTGSetSlippage(s, value) == [s EXCEPT !.Slippage = value, !.State = "stateSwapCard"]

\* handleTGSwapDirection
handleTGSwapDirection(s) ==
    [s EXCEPT !.FromTicker = s.ToTicker, !.ToTicker = s.FromTicker,
              !.FromNet = s.ToNet, !.ToNet = s.FromNet,
              !.RefundAddr = s.RecvAddr, !.RecvAddr = s.RefundAddr,
              !.Amount = <<>>, !.State = "stateSwapCard"]

TGPrompt(st) == SessionUpdate(handleTGPrompt(sess, st))

TGSetSlippage(value) == SessionUpdate(handleTGSetSlippage(sess, value))

TGSwapDirection == SessionUpdate(handleTGSwapDirection(sess))

TGText(text) == SessionUpdate(handleTGMessage(sess, text))

\* callback "gq"
TGGetQuote(a) ==
    /\ BotIdle
    /\ swCall' = [fn |-> "handleTGGetQuote", sess |-> sess]
    /\ LET done == handleTGGetQuote(sess, swNow, a)
       IN  swRet' = done.out /\ sess' = done.sess
    /\ UNCHANGED <<swNow, minted>>
    /\ UNCHANGED nonSwap

\* callback "cs"
TGConfirmSwap(a, iv) ==
    /\ BotIdle
    /\ swCall' = [fn |-> "handleTGConfirmSwap", sess |-> sess]
    /\ LET done == handleTGConfirmSwap(sess, swNow, a, iv)
       IN  swRet' = done.out /\ sess' = done.sess
    /\ UNCHANGED <<swNow, minted>>
    /\ UNCHANGED nonSwap

NextBot ==
    \/ TGStart
    \/ \E st \in {"stateEnterAmount", "stateEnterRefund", "stateEnterRecv"} : TGPrompt(st)
    \/ \E value \in SlippageData : TGSetSlippage(value)
    \/ TGSwapDirection
    \/ \E text \in Texts : TGText(text)
    \/ BotIdle /\ \E a \in UpstreamAnswers : TGGetQuote(a)
    \/ BotIdle /\ \E a \in UpstreamAnswers, iv \in IVs : TGConfirmSwap(a, iv)

\* both clients
NextFlows == NextSwap \/ NextBot

SpecFlows == StartSwap /\ [][NextFlows]_vars

\* C22: a binding-order request with an empty amount, recipient or refund
\* address ends in "Validation Error" (or is refused for its CSRF token or by
\* the limiter); no request is sent upstream and no order token is issued.
C22_OrderValidated ==
    (swRet.fn = "handleSwapConfirm"
       /\ (\/ swCall.form.atomic_amount = <<>>
           \/ TrimSpace(swCall.form.recipient) = <<>>
           \/ TrimSpace(swCall.form.refund_addr) = <<>>)) =>
        /\ swRet.code \in {400, 403, 429}
        /\ swRet.code = 400 => swRet.page = "Validation Error"
        /\ swRet.sent = NothingSent
        /\ swRet.token = <<>>

\* the bot sends a binding request only from a session whose amount and
\* addresses are filled in
C22_BotSessionComplete ==
    (swRet.fn = "handleTGConfirmSwap" /\ swRet.sent # NothingSent) =>
        /\ swCall.sess.Amount # <<>>
        /\ swCall.sess.RefundAddr # <<>> /\ swCall.sess.RecvAddr # <<>>

\* C23: every QuoteRequest sent upstream, by the web handlers or by the bot,
\* carries a slippage tolerance of 1 to 5000 basis points.
C23_SlippageInRange ==
    swRet.fn \in {"handleQuote", "handleSwapConfirm", "handleTGGetQuote",
                  "handleTGConfirmSwap"} =>
        \A i \in 1..Len(swRet.sent) :
            swRet.sent[i].SlippageTolerance \in 1..5000

\* slippageToBPS itself gives 1 to 5000 basis points or an error, and 100 for
\* an empty string
C23_ConverterInRange ==
    swRet.fn = "slippageToBPS" =>
        /\ swRet.res.err = "" => swRet.res.bps \in 1..5000
        /\ TrimSpace(swCall.pct) = <<>> => swRet.res = [bps |-> 100, err |-> ""]

\* the preview sends 1 to 5000 basis points whatever the form says
C23_PreviewInRange ==
    swRet.fn = "handleQuote" =>
        \A i \in 1..Len(swRet.sent) : swRet.sent[i].SlippageTolerance \in 1..5000

\* C25: the order token handed out by handleSwapConfirm or handleTGConfirmSwap
\* decrypts to a record whose deadline is the one the upstream set in its
\* answer to the binding request.
C25_UpstreamDeadlineSealed ==
    (swRet.fn \in {"handleSwapConfirm", "handleTGConfirmSwap"} /\ swRet.token # <<>>) =>
        LET opened == decryptOrderData(swRet.token)
        IN  /\ opened.ok
            /\ opened.data["Deadline"] = swRet.deadline
            /\ swRet.deadline \in {UpstreamDeadline, swRet.sent[1].Deadline}

\* an order of the bot whose upstream deadline differs from the proposed one
C25_Witness ==
    /\ swRet.fn = "handleTGConfirmSwap" /\ swRet.token # <<>>
    /\ swRet.deadline = UpstreamDeadline
    /\ swRet.sent[1].Deadline # UpstreamDeadline
    /\ decryptOrderData(swRet.token).data["Deadline"] = UpstreamDeadline


(***************************************************************************)
(* The schedule of the monitor: runMonitor starts the pollers one after    *)
(* the other, every poller loops over fetchExplorerTxs and time.Sleep, and *)
(* every fetch passes the rate gate of explorerGet.  The pollers are the   *)
(* callers of the gate; time is the gate's clock, in seconds.  What a      *)
(* poller does with a batch takes no time here.                            *)
(***************************************************************************)
\* the resellers initMonitor configures, by name
initMonitorResellers == <<"SWAP.MY", "EAGLESWAP", "LIZARDSWAP">>
Launched == 1..Len(initMonitorResellers)

StartGap == 6        \* time.Sleep(time.Duration(i) * 6 * time.Second)
PollSleep == 15      \* time.Sleep(15 * time.Second)
BackoffSleep == 30   \* time.Sleep(30 * time.Second)
MaxSchedule == 32    \* the schedule is followed for this many seconds
MaxLatency == 3      \* a response or a transport error arrives within this many seconds

\* runMonitor, before the reseller of 0-based index i is started
launchSleep(i) == i * StartGap

\* runResellerPoller, after a fetch: the length of the sleep
loopSleep(failed) == IF failed THEN BackoffSleep ELSE PollSleep

\* initMonitor: the gate initialised, go runMonitor
InitSchedule ==
    /\ InitExplorer
    /\ winStart = 0
    /\ rmI = 1
    /\ rmWake = launchSleep(0)
    /\ lpc = [p \in Launched |-> "off"]
    /\ wake = [p \in Launched |-> 0]
    /\ firstFetch = [p \in Launched |-> -1]
    /\ waitFrom = [p \in Launched |-> 0]
    /\ waited = [p \in Launched |-> 0]

\* runMonitor: its sleep is over, go runResellerPoller for the next reseller, and
\* the sleep before the one after it begins
RunMonitorStarts ==
    /\ rmI \in Launched
    /\ clk = rmWake
    /\ lpc' = [lpc EXCEPT ![rmI] = "start"]
    /\ wake' = [wake EXCEPT ![rmI] = clk]
    /\ rmI' = rmI + 1
    /\ rmWake' = clk + launchSleep(rmI)
    /\ UNCHANGED <<firstFetch, waitFrom, waited>>
    /\ UNCHANGED expVars

\* runResellerPoller: the poller was started or its sleep is over; it calls
\* fetchExplorerTxs, which enters explorerGet
PollerFetches(p) ==
    /\ lpc[p] \in {"start", "sleep", "backoff"}
    /\ clk = wake[p]
    /\ EnterExplorerGet(p)
    /\ lpc' = [lpc EXCEPT ![p] = "fetching"]
    /\ firstFetch' = [firstFetch EXCEPT ![p] = IF @ = -1 THEN clk ELSE @]
    /\ waitFrom' = [waitFrom EXCEPT ![p] = clk]
    /\ UNCHANGED <<rmI, rmWake, wake, waited>>

\* the poller's receive from explorerRateCh succeeds; the receivers blocked on a
\* channel are served in the order they arrived
PollerTakesToken(p) ==
    /\ lpc[p] = "fetching"
    /\ \A q \in Launched : gpc[q] = "waiting" => waitFrom[q] >= waitFrom[p]
    /\ TakeTokenAndSend(p)
    /\ waited' = [waited EXCEPT ![p] = clk - waitFrom[p]]
    /\ wake' = [wake EXCEPT ![p] = clk + MaxLatency]
    /\ UNCHANGED <<rmI, rmWake, lpc, firstFetch, waitFrom>>

\* fetchExplorerTxs returns, with a batch or with an error, and the poller sleeps
PollerSleeps(p, failed) ==
    /\ lpc[p] = "fetching"
    /\ ExplorerGetReturns(p)
    /\ lpc' = [lpc EXCEPT ![p] = IF failed THEN "backoff" ELSE "sleep"]
    /\ wake' = [wake EXCEPT ![p] = clk + loopSleep(failed)]
    /\ UNCHANGED <<rmI, rmWake, firstFetch, waitFrom, waited>>

\* the ticker's goroutine serves its tick
GateTick == TickerTick /\ UNCHANGED schedVars

\* a second passes, once every sleep that ends now has ended, no poller waits
\* for a token that is in the channel and no answer is overdue
ScheduleSecond ==
    /\ clk < MaxSchedule
    /\ rmI \in Launched => rmWake > clk
    /\ \A p \in Launched : lpc[p] \in {"start", "sleep", "backoff"} => wake[p] > clk
    /\ explorerRateCh > 0 => \A p \in Launched : gpc[p] # "waiting"
    /\ \A p \in Launched : gpc[p] = "sending" => wake[p] > clk
    /\ ClockSecond
    /\ UNCHANGED schedVars

nonSchedule == <<codecVars, limVars, monVars, statVars, ringVars, cacheVars, orderVars, swapVars, slideVars, quoteVars, liveVars, crashes>>

NextSchedule ==
    \/ RunMonitorStarts /\ UNCHANGED nonSchedule
    \/ \E p \in Launched : PollerFetches(p) /\ UNCHANGED nonSchedule
    \/ \E p \in Launched : PollerTakesToken(p) /\ UNCHANGED nonSchedule
    \/ \E p \in Launched, failed \in BOOLEAN : PollerSleeps(p, failed) /\ UNCHANGED nonSchedule
    \/ GateTick /\ UNCHANGED nonSchedule
    \/ ScheduleSecond /\ UNCHANGED nonSchedule

StartSchedule == InitSchedule /\ CodecOff /\ LimiterOff /\ MonitorOff /\ StatsOff /\ RingOff /\ CacheOff /\ OrderOff /\ SwapOff /\ SlidingOff /\ ConfirmOff /\ LiveOff /\ NeverCrashed

SpecSchedule == StartSchedule /\ [][NextSchedule]_vars

\* C28: the poller of 0-based index i first calls fetchExplorerTxs i x 6 seconds
\* after the monitor started: 0 s, 6 s, 12 s.
C28_FirstFetchOffset ==
    \A p \in Launched : firstFetch[p] # -1 => firstFetch[p] = (p - 1) * StartGap

\* what runMonitor does: the sleeps before the starts add up, so the poller of
\* index i is started 6 x (0 + 1 + ... + i) seconds after the monitor
C28_SleepsAddUp ==
    \A p \in Launched : firstFetch[p] # -1 => firstFetch[p] = (StartGap * p * (p - 1)) \div 2

\* C30: a poller that waits for the token of explorerGet has it within 6 seconds
C30_TokenWithinPeriod ==
    \A p \in Launched : waited[p] <= TickPeriod

\* C29: a step in which a poller's fetch fails leaves the stats of every
\* affiliate, the event ring, the cards, the poller's cursor, its titleCounter
\* and the cursor file as they were and takes the poller to its 30 s sleep; the
\* step that ends this sleep takes it back to the fetch with the same cursor and
\* changes none of them either; and a fetch that returns an empty batch changes
\* none of them and goes to the 15 s sleep without passing saveCursor.
C29_FailedFetchChangesNothing ==
    [][\A p \in Pollers :
          LET kept == /\ monitorStats' = monitorStats
                      /\ monitorLogBuf' = monitorLogBuf
                      /\ cards' = cards
                      /\ cursor' = cursor
                      /\ titleCounter' = titleCounter
                      /\ diskCursors' = diskCursors
              got  == fetchExplorerTxs(SubSeq(Feed(p), 1, explorerLen[p]),
                                       cursor[p].LastAddr, cursor[p].LastMemo, FetchCount)
          IN  /\ (ppc[p] = "fetch" /\ ppc'[p] = "backoff") => kept
              /\ (ppc[p] = "backoff" /\ ppc'[p] # "backoff") => ppc'[p] = "fetch" /\ kept
              /\ (ppc[p] = "fetch" /\ ppc'[p] \notin {"fetch", "backoff"} /\ got = <<>>) =>
                     ppc'[p] = "sleep" /\ kept
              /\ (ppc[p] = "sleep" /\ ppc'[p] # "sleep") => ppc'[p] = "fetch" /\ kept
      ]_vars

\* a fetch failed after the poller had applied a batch and saved its cursor
C29_Witness ==
    \E p \in Pollers :
        /\ ppc[p] = "backoff"
        /\ titleCounter[p] > 0
        /\ cursor[p] # ZeroCursor
        /\ CursorOf(diskCursors, Aff(p)) = cursor[p]

\* in the timed schedule: the sleep after a failed fetch ends 30 seconds after
\* the failure, the sleep after a fetch that succeeded 15 seconds after it, and
\* the poller fetches again at that second
C29_RetryAfterThirty ==
    [][\A p \in Launched :
          /\ (lpc[p] = "fetching" /\ lpc'[p] = "backoff") => wake'[p] = clk + BackoffSleep
          /\ (lpc[p] = "fetching" /\ lpc'[p] = "sleep") => wake'[p] = clk + PollSleep
          /\ (lpc[p] \in {"backoff", "sleep"} /\ lpc'[p] = "fetching") => clk = wake[p]
      ]_vars

(***************************************************************************)
(* The limiter as its callers see it over time: the calls of SpecLimiter,  *)
(* with the times of the admitted calls of every key kept.                 *)
(***************************************************************************)
InitSliding ==
    /\ InitLimiter
    /\ admittedAt = [k \in ExpectedKeys |-> <<>>]
    /\ unswept = counters
    /\ unsweptOk = lastCall.ok
    /\ swept = {}

\* the same call of allow on the limiter that is never swept
unsweptAllow(ip) == allow(unswept, ip, limCfg.limit, limCfg.window, now)

\* a call of allow; its time is kept when it returned true
AllowObserved(ip) ==
    /\ Allow(ip)
    /\ admittedAt' = [admittedAt EXCEPT ![ExpectedKey(ip)] =
                       IF lastCall'.ok THEN Append(@, now) ELSE @]
    /\ unswept' = unsweptAllow(ip).counters
    /\ unsweptOk' = unsweptAllow(ip).ok
    /\ UNCHANGED swept

SweepObserved ==
    /\ Sweep
    /\ swept' = swept \cup (DOMAIN counters \ DOMAIN counters')
    /\ UNCHANGED <<admittedAt, unswept, unsweptOk>>

AdvanceObserved == Advance /\ UNCHANGED slideVars

nonSliding == <<codecVars, expVars, monVars, statVars, ringVars, cacheVars, orderVars, swapVars, schedVars, quoteVars, liveVars, crashes>>

NextSliding ==
    \/ \E ip \in IPs : AllowObserved(ip) /\ UNCHANGED nonSliding
    \/ SweepObserved /\ UNCHANGED nonSliding
    \/ AdvanceObserved /\ UNCHANGED nonSliding

StartSliding == InitSliding /\ CodecOff /\ ExplorerOff /\ MonitorOff /\ StatsOff /\ RingOff /\ CacheOff /\ OrderOff /\ SwapOff /\ ScheduleOff /\ ConfirmOff /\ LiveOff /\ NeverCrashed

SpecSliding == StartSliding /\ [][NextSliding]_vars

\* the admitted calls of a key in the interval [from, from + w)
AdmittedIn(key, from, w) ==
    Cardinality({ i \in 1..Len(admittedAt[key]) :
                    from <= admittedAt[key][i] /\ admittedAt[key][i] < from + w })

\* C31: for every key and every start of an interval of the window's length, at
\* most limit calls of the key were admitted in the interval.
C31_SlidingWindow ==
    \A key \in ExpectedKeys, from \in 0..MaxNow :
        AdmittedIn(key, from, limCfg.window) <= limCfg.limit

\* what the fixed window does guarantee: an interval of the window's length
\* meets at most two buckets, so at most twice the limit is admitted in it
C31_TwiceTheLimit ==
    \A key \in ExpectedKeys, from \in 0..MaxNow :
        AdmittedIn(key, from, limCfg.window) <= 2 * limCfg.limit


\* C37: the sweep is invisible to callers: the swept limiter answered the last
\* call as the limiter that is never swept did, and the two hold the same
\* buckets but for buckets whose reset instant has passed.
C37_SweepInvisible ==
    /\ lastCall.ok = unsweptOk
    /\ DOMAIN counters \subseteq DOMAIN unswept
    /\ \A k \in DOMAIN unswept :
          IF k \in DOMAIN counters
          THEN counters[k] = unswept[k]
          ELSE After(now, unswept[k].resetAt)

\* a sweep has deleted the bucket of a prefix and a later call of that prefix
\* was answered
C37_Witness ==
    /\ Prefix(lastCall.ip) \in swept
    /\ Prefix(lastCall.ip) \in DOMAIN counters
    /\ lastCall.ok

\* a step of the sweep alone: no call and no second passes
SweepStep == calls' = calls /\ now' = now

\* a sweep deletes every bucket whose reset instant has passed, only those, and
\* changes no other bucket
C37_SweepDeletesExpired ==
    [][SweepStep =>
        /\ DOMAIN counters' = { k \in DOMAIN counters : ~After(now, counters[k].resetAt) }
        /\ \A k \in DOMAIN counters' : counters'[k] = counters[k]]_vars

\* a sweep ran after the reset instant of a bucket and deleted it
C37_SweptWitness ==
    \E k \in swept : k \notin DOMAIN counters /\ After(now, unswept[k].resetAt)


(***************************************************************************)
(* The two classifications of a status side by side: the upstream may send *)
(* a status in any letter case, the empty string or a string outside its   *)
(* set, and the order page and the bot's card classify what was fetched.   *)
(***************************************************************************)
\* first letter upper case, the rest lower case
TitleCase(s) == [i \in 1..Len(s) |-> IF i = 1 THEN UpperOf(s[i]) ELSE LowerOf(s[i])]

\* the statuses of the upstream, the terminal ones in lower case as well, one in
\* mixed case, the empty string and UNKNOWN
StatusValues ==
    UpstreamStatuses
        \cup { ToLower(s) : s \in {SUCCESS, REFUNDED, FAILED, INCOMPLETE_DEPOSIT} }
        \cup { TitleCase(SUCCESS), <<>>, UNKNOWN }

InitClassify ==
    /\ upstreamStatus \in StatusValues
    /\ opc = "idle"
    /\ oentry = ""
    /\ ofetch = NoFetch
    /\ oresp = NoAnswer

\* the upstream sends another status string
UpstreamSends ==
    /\ \E s \in StatusValues : s # upstreamStatus /\ upstreamStatus' = s
    /\ UNCHANGED <<opc, oentry, ofetch, oresp>>

NextClassify ==
    \/ UpstreamSends /\ UNCHANGED nonOrder
    \/ \E e \in EntryPoints : QueryOrder(e) /\ UNCHANGED nonOrder
    \/ AutoRefresh /\ UNCHANGED nonOrder
    \/ FetchStatusReturns /\ UNCHANGED nonOrder
    \/ FetchStatusFails /\ UNCHANGED nonOrder
    \/ Answer /\ UNCHANGED nonOrder

StartClassify == InitClassify /\ CodecOff /\ LimiterOff /\ ExplorerOff /\ MonitorOff /\ StatsOff /\ RingOff /\ CacheOff /\ SwapOff /\ ScheduleOff /\ SlidingOff /\ ConfirmOff /\ LiveOff /\ NeverCrashed

SpecClassify == StartClassify /\ [][NextClassify]_vars

\* C35: the order page's is_terminal of a status equals isTerminalStatus of it,
\* whatever the letter case of the status.
C35_SameClassification ==
    oresp.kind = "page" => oresp.IsTerminal = isTerminalStatus(oresp.Status)

\* the two agree on the statuses written in upper case, the empty string and
\* UNKNOWN
C35_AgreeInUpperCase ==
    oresp.kind = "page" /\ oresp.Status = ToUpper(oresp.Status) =>
        oresp.IsTerminal = isTerminalStatus(oresp.Status)

\* isTerminalStatus is true exactly for the four terminal statuses compared
\* without regard to case
C35_BotFoldsCase ==
    oresp.kind = "card" =>
        (oresp.IsTerminal <=>
            \E t \in {SUCCESS, REFUNDED, FAILED, INCOMPLETE_DEPOSIT} :
                EqualFold(oresp.Status, t))


\* C36, in full: humanToAtomic succeeds only on a non-negative decimal numeral
\* (digits with at most one decimal point, spaces around it trimmed), and what
\* it returns is a string of decimal digits.
C36_OnlyNumerals ==
    (swRet.fn = "humanToAtomic" /\ swRet.atomic.err = "") =>
        /\ IsDecimal(TrimSpace(swCall.amount))
        /\ \A i \in 1..Len(swRet.atomic.val) : IsDigit(swRet.atomic.val[i])

\* C36, the part about the sign: humanToAtomic never returns a negative atomic
\* amount.
C36_NeverNegative ==
    (swRet.fn = "humanToAtomic" /\ swRet.atomic.err = "") =>
        swRet.atomic.val[1] # "-"

\* what the code gives: the amount returned is an integer in base 10, with a
\* minus sign when the input had one and its digits are not all zero
C36_SignedInteger ==
    (swRet.fn = "humanToAtomic" /\ swRet.atomic.err = "") =>
        /\ swRet.atomic.val # <<>>
        /\ \A i \in 2..Len(swRet.atomic.val) : IsDigit(swRet.atomic.val[i])
        /\ IsDigit(swRet.atomic.val[1])
              \/ (swRet.atomic.val[1] = "-" /\ TrimSpace(swCall.amount)[1] = "-")


\* the asset a sealed ticker and chain code stand for, in the web flow and in
\* the bot flow; <<>> when findToken finds none
SealedAsset(fn, ticker, net) ==
    LET tokens == IF fn = "handleSwapConfirm" THEN SwapTokens ELSE BotTokens
        found  == findToken(tokens, ticker, net)
    IN  IF found = 0 THEN <<>> ELSE tokens[found].DefuseAssetID

\* C33: the amounts sealed into an order token are the amounts of the binding
\* quote that gave the deposit address, and the sealed tickers and chain codes
\* are those of the assets the binding quote was requested for.
C33_SealedFromBindingQuote ==
    (swRet.fn \in {"handleSwapConfirm", "handleTGConfirmSwap"} /\ swRet.token # <<>>) =>
        LET opened == decryptOrderData(swRet.token)
        IN  /\ opened.ok
            /\ opened.data["DepositAddr"] = swRet.deposit
            /\ opened.data["AmountIn"] = swRet.amountIn
            /\ opened.data["AmountOut"] = swRet.amountOut
            /\ SealedAsset(swRet.fn, opened.data["FromTicker"], opened.data["FromNet"])
                  = swRet.sent[1].OriginAsset
            /\ SealedAsset(swRet.fn, opened.data["ToTicker"], opened.data["ToNet"])
                  = swRet.sent[1].DestinationAsset

\* what the code gives in the web flow: the deposit address, the tickers and
\* the chain codes are those of the binding quote; the amounts are the fields
\* amount_in and amount_out of the form
C33_WebSealsFormAmounts ==
    (swRet.fn = "handleSwapConfirm" /\ swRet.token # <<>>) =>
        LET opened == decryptOrderData(swRet.token)
        IN  /\ opened.ok
            /\ opened.data["DepositAddr"] = swRet.deposit
            /\ opened.data["AmountIn"] = swCall.form.amount_in
            /\ opened.data["AmountOut"] = swCall.form.amount_out
            /\ SealedAsset(swRet.fn, opened.data["FromTicker"], opened.data["FromNet"])
                  = swRet.sent[1].OriginAsset
            /\ SealedAsset(swRet.fn, opened.data["ToTicker"], opened.data["ToNet"])
                  = swRet.sent[1].DestinationAsset

\* the bot flow does what the claim says
C33_BotSealsQuoteAmounts ==
    (swRet.fn = "handleTGConfirmSwap" /\ swRet.token # <<>>) =>
        LET opened == decryptOrderData(swRet.token)
        IN  /\ opened.ok
            /\ opened.data["DepositAddr"] = swRet.deposit
            /\ opened.data["AmountIn"] = swRet.amountIn
            /\ opened.data["AmountOut"] = swRet.amountOut
            /\ SealedAsset(swRet.fn, opened.data["FromTicker"], opened.data["FromNet"])
                  = swRet.sent[1].OriginAsset
            /\ SealedAsset(swRet.fn, opened.data["ToTicker"], opened.data["ToNet"])
                  = swRet.sent[1].DestinationAsset

\* the bot has sealed an order whose quote gave 1.49
C33_BotWitness ==
    /\ swRet.fn = "handleTGConfirmSwap" /\ swRet.token # <<>>
    /\ swRet.amountOut = <<"1", ".", "4", "9">>
    /\ swRet.order["AmountOut"] = <<"1", ".", "4", "9">>


(***************************************************************************)
(* The bot's session under every update that touches it: /start, the       *)
(* callbacks of handleTGCallback and the text replies of handleTGMessage.  *)
(* handleTGCallback and handleTGMessage hold sess.mu for the whole handler, *)
(* so the updates of one chat are taken one at a time.  The callbacks "tp" *)
(* (a page of the picker) and "rs" (refresh of the order card) and the     *)
(* commands /verify and /status change none of the fields of a quote and   *)
(* never set stateQuoteConfirm; they are left out.                         *)
(***************************************************************************)
\* (sess *tgSession) reset()
reset == [TGStartSession EXCEPT !.State = "stateIdle"]

\* handleTGPickToken(chatID, sess, side)
handleTGPickToken(s, side) == [s EXCEPT !.PickSide = side, !.State = "statePickToken"]

\* applyTokenSelection(sess, token)
applyTokenSelection(s, token) ==
    IF s.PickSide = "from"
    THEN [s EXCEPT !.FromTicker = token.Ticker, !.FromNet = token.ChainName,
                   !.RefundAddr = <<>>]
    ELSE [s EXCEPT !.ToTicker = token.Ticker, !.ToNet = token.ChainName,
                   !.RecvAddr = <<>>]

\* handleTGBackToCard, handleTGCancelQuote
handleTGBackToCard(s) == [s EXCEPT !.State = "stateSwapCard"]

\* handleTGTokenSelected: the tokens of searchTokens(ticker) with that ticker
networksOf(ticker) ==
    SelectSeq(BotTokens, LAMBDA t : ticker # <<>> /\ EqualFold(t.Ticker, ticker))

\* handleTGTokenSelected(chatID, sess, ticker)
handleTGTokenSelected(s, ticker) ==
    IF Len(networksOf(ticker)) = 0 THEN handleTGBackToCard(s)
    ELSE IF Len(networksOf(ticker)) = 1
    THEN [applyTokenSelection(s, networksOf(ticker)[1]) EXCEPT !.State = "stateSwapCard"]
    ELSE [s EXCEPT !.State = "statePickNet"]

\* handleTGNetworkSelected, from findToken on
networkFound(s, token) ==
    IF token = 0 THEN handleTGBackToCard(s)
    ELSE [applyTokenSelection(s, BotTokens[token]) EXCEPT !.State = "stateSwapCard"]

\* handleTGNetworkSelected(chatID, sess, data), data being "TICKER:network"
handleTGNetworkSelected(s, data) ==
    IF Len(SplitN2(data, ":")) # 2 THEN handleTGBackToCard(s)
    ELSE networkFound(s, findToken(BotTokens, SplitN2(data, ":")[1], SplitN2(data, ":")[2]))

NoQuote == <<>>

\* the tickers after "ts:" and the data after "tn:" in callback data
TickerData == {<<"U", "S", "D", "T">>, <<"B", "T", "C">>, <<"x">>}
NetworkData == {<<"U", "S", "D", "T", ":", "s", "o", "l">>, <<"U", "S", "D", "T">>}

\* the values after "sl:" of the two buttons
SlippageButtons == {<<"0", ".", "5">>, <<"1">>}

\* what rand.Read gives encryptOrderData, one value in this specification
ConfirmIVs == {CHOOSE iv \in IVs : TRUE}

\* the upstream fails, or quotes 150
ConfirmAnswers == { a \in UpstreamAnswers : a.err \/ (a.amountOut = <<"1", "5", "0">> /\ ~a.own) }

InitConfirm == InitSwap /\ quoted = NoQuote

\* the quote behind the session after an update
quotedAfter(s, out) ==
    IF out.fn = "handleTGGetQuote" /\ out.page = "quote card" THEN out.sent[1]
    ELSE IF s.State = "stateQuoteConfirm" THEN quoted
    ELSE NoQuote

\* an update that changes the session only
Updated(s) ==
    /\ sess' = s /\ s # sess
    /\ quoted' = quotedAfter(s, Idle)
    /\ UNCHANGED <<swNow, minted, swCall, swRet>>

\* the callbacks "gq" and "cs": the session afterwards and what was done
Handled(call, done) ==
    /\ swCall' = [fn |-> call, sess |-> sess]
    /\ swRet' = done.out /\ sess' = done.sess
    /\ quoted' = quotedAfter(done.sess, done.out)
    /\ UNCHANGED <<swNow, minted>>

nonConfirm == <<codecVars, limVars, expVars, monVars, statVars, ringVars, cacheVars, orderVars, schedVars, slideVars, liveVars, crashes>>

NextConfirm ==
    \/ BotIdle /\ Updated(TGStartSession) /\ UNCHANGED nonConfirm
    \/ BotIdle /\ Updated(reset) /\ UNCHANGED nonConfirm
    \/ BotIdle /\ \E st \in {"stateEnterAmount", "stateEnterRefund", "stateEnterRecv"} :
          Updated(handleTGPrompt(sess, st)) /\ UNCHANGED nonConfirm
    \/ BotIdle /\ \E value \in SlippageButtons :
          Updated(handleTGSetSlippage(sess, value)) /\ UNCHANGED nonConfirm
    \/ BotIdle /\ Updated(handleTGSwapDirection(sess)) /\ UNCHANGED nonConfirm
    \/ BotIdle /\ \E text \in Texts :
          Updated(handleTGMessage(sess, text)) /\ UNCHANGED nonConfirm
    \/ BotIdle /\ \E side \in {"from", "to"} :
          Updated(handleTGPickToken(sess, side)) /\ UNCHANGED nonConfirm
    \/ BotIdle /\ \E ticker \in TickerData :
          Updated(handleTGTokenSelected(sess, ticker)) /\ UNCHANGED nonConfirm
    \/ BotIdle /\ \E data \in NetworkData :
          Updated(handleTGNetworkSelected(sess, data)) /\ UNCHANGED nonConfirm
    \/ BotIdle /\ Updated(handleTGBackToCard(sess)) /\ UNCHANGED nonConfirm
    \/ BotIdle /\ \E a \in ConfirmAnswers :
          Handled("handleTGGetQuote", handleTGGetQuote(sess, swNow, a))
              /\ UNCHANGED nonConfirm
    \/ BotIdle /\ \E a \in ConfirmAnswers, iv \in ConfirmIVs :
          Handled("handleTGConfirmSwap", handleTGConfirmSwap(sess, swNow, a, iv))
              /\ UNCHANGED nonConfirm
    \/ ResponseWritten

StartConfirm == InitConfirm /\ InitTamper /\ LimiterOff /\ ExplorerOff /\ MonitorOff /\ StatsOff /\ RingOff /\ CacheOff /\ OrderOff /\ ScheduleOff /\ SlidingOff /\ LiveOff /\ NeverCrashed

SpecConfirm == StartConfirm /\ [][NextConfirm]_vars

\* the parameters of a quote request: tokens and chains (the two assets), amount,
\* refund and receive address, slippage
Parameters(req) ==
    <<req.OriginAsset, req.DestinationAsset, req.Amount, req.RefundTo, req.Recipient,
      req.SlippageTolerance>>

\* a step in which handleTGConfirmSwap sends a binding quote request
BindingRequested ==
    /\ swRet = Idle /\ swRet' # Idle
    /\ swRet'.fn = "handleTGConfirmSwap"
    /\ swRet'.sent # NothingSent

\* C34: a binding quote is requested only in the quote-confirm state, which a
\* successful dry quote has entered, and with the parameters of that dry quote.
C34_BindingAsQuoted ==
    [][BindingRequested =>
          /\ sess.State = "stateQuoteConfirm"
          /\ quoted # NoQuote
          /\ quoted.Dry
          /\ ~swRet'.sent[1].Dry
          /\ Parameters(swRet'.sent[1]) = Parameters(quoted)]_vars

\* the session is in the quote-confirm state only with the dry quote of its
\* present fields: no update has changed a field and stayed in that state
C34_ConfirmStateIsQuoted ==
    sess.State = "stateQuoteConfirm" =>
        /\ quoted # NoQuote
        /\ isComplete(sess)
        /\ <<quoted.RefundTo, quoted.Recipient>> = <<sess.RefundAddr, sess.RecvAddr>>
        /\ quoted.SlippageTolerance = slippageToBPS(sess.Slippage, FALSE).bps
        /\ quoted.OriginAsset = SealedAsset("handleTGConfirmSwap", sess.FromTicker, sess.FromNet)
        /\ quoted.DestinationAsset = SealedAsset("handleTGConfirmSwap", sess.ToTicker, sess.ToNet)

\* a binding quote has been requested for USDT on Solana, picked in the token
\* picker, with the slippage set to 0.5 %
C34_Witness ==
    /\ swRet # Idle /\ swRet.fn = "handleTGConfirmSwap" /\ swRet.sent # NothingSent
    /\ swRet.sent[1].DestinationAsset = usdtOnSol.DefuseAssetID
    /\ swRet.sent[1].SlippageTolerance = 50
    /\ swCall.sess.State = "stateQuoteConfirm"


(***************************************************************************)
(* The token cache with two refreshes after the initial load, so that the  *)
(* refresher and a handler can both have a fetch in flight.                *)
(***************************************************************************)
MaxRefetches == 3    \* calls of fetchTokens in a run of this specification

NextRace ==
    \/ NextCache
    \/ \E a \in Activities : FetchTokensFailsWithin(a, MaxRefetches) /\ UNCHANGED nonCache
    \/ \E a \in Activities : FetchTokensReturnsWithin(a, MaxRefetches) /\ UNCHANGED nonCache

SpecRace == StartCache /\ [][NextRace]_vars

\* C32: an install never replaces the installed token list by one built from an
\* earlier response of the upstream (the fetches are numbered as they return).
C32_FreshnessMonotone ==
    [][cache'.tokens.from >= cache.tokens.from]_vars

\* what the code gives: every installed list is one the upstream sent, the
\* latest or an earlier one
C32_InstalledWasFetched ==
    cache.tokens.from \in 0..fetches

(***************************************************************************)
(* The pollers and the rate gate together, without a clock: the ticker     *)
(* fires again and again, a sleep ends at some time, and the explorer      *)
(* answers every request with a batch or with an error.  The receivers     *)
(* blocked on explorerRateCh are served in the order they arrived (the     *)
(* channel's queue of waiting receivers).                                  *)
(***************************************************************************)
LiveFeed == 1     \* transactions the explorer comes to hold here for the affiliates
                  \* after the first, which has one more

LiveHeld(p) == IF p = 1 THEN LiveFeed + 1 ELSE LiveFeed

\* initMonitor: the rate gate is started, then the monitor; no time is counted, so
\* the clock stays at 0 and the observed window lies after it
InitLive ==
    /\ InitMonitor
    /\ diskCursors = <<>>
    /\ explorerRateCh = 1
    /\ clk = 0
    /\ tickDue = FALSE
    /\ gpc = [p \in Pollers |-> "idle"]
    /\ sinceLast = TickPeriod
    /\ lastGap = TickPeriod
    /\ winStart = 1
    /\ winCount = 0
    /\ recvq = <<>>

nonLiveness == <<codecVars, limVars, statVars, ringVars, cacheVars, orderVars, swapVars, schedVars, slideVars, quoteVars, crashes>>

\* the ticker fires: t.C delivers the next tick
TickerFires ==
    /\ ~tickDue
    /\ tickDue' = TRUE
    /\ UNCHANGED <<explorerRateCh, clk, gpc, sinceLast, lastGap, winStart, winCount>>
    /\ UNCHANGED <<monVars, liveVars, nonLiveness>>

\* the ticker's goroutine serves the tick: a token is sent, or dropped
TickServed == TickerTick /\ UNCHANGED <<monVars, liveVars, nonLiveness>>

\* the explorer records a transaction of the poller's affiliate; what it records
\* between two requests is recorded here while the request is with it
LiveRecords(p) ==
    /\ gpc[p] = "sending"
    /\ explorerLen[p] < LiveHeld(p)
    /\ ExplorerRecords(p)
    /\ UNCHANGED <<expVars, liveVars, nonLiveness>>

\* fetchExplorerTxs calls explorerGet, which blocks on the channel
LiveEnters(p) ==
    /\ ppc[p] = "fetch"
    /\ EnterExplorerGet(p)
    /\ recvq' = Append(recvq, p)
    /\ UNCHANGED <<monVars, nonLiveness>>

\* the first of the blocked receivers gets the token and its request goes out
LiveTakes(p) ==
    /\ recvq # <<>>
    /\ Head(recvq) = p
    /\ TakeTokenAndSend(p)
    /\ recvq' = Tail(recvq)
    /\ UNCHANGED <<monVars, nonLiveness>>

\* explorerGet returns and fetchExplorerTxs with it: the explorer has answered with
\* a page of transactions, or with an error, or the request has timed out
LiveReturns(p) ==
    /\ ExplorerGetReturns(p)
    /\ (Fetch(p) \/ FetchFails(p))
    /\ UNCHANGED <<liveVars, nonLiveness>>

\* one statement of runResellerPoller outside fetchExplorerTxs and postMonitorCard
LiveRuns(p) ==
    /\ \/ PollerStarts(p)
       \/ WakeUp(p)
       \/ PushRing(p)
       \/ AddStats(p)
       \/ AdvanceCursor(p)
       \/ SaveLoads(p)
       \/ SaveLoadsNothing(p)
       \/ SaveWrites(p)
    /\ UNCHANGED <<expVars, liveVars, nonLiveness>>

\* postMonitorCard returns, the card posted or not: every outbound request carries
\* a transport timeout, so the call ends whatever the presentation channel does
LiveEmits(p) == PostCard(p) /\ UNCHANGED <<expVars, liveVars, nonLiveness>>

\* a step of the goroutine of poller p, the explorer's answers included
PollerStep(p) ==
    LiveEnters(p) \/ LiveTakes(p) \/ LiveReturns(p) \/ LiveRuns(p) \/ LiveEmits(p)

NextLive ==
    \/ TickerFires
    \/ TickServed
    \/ \E p \in Pollers : LiveRecords(p)
    \/ \E p \in Pollers : LiveEnters(p)
    \/ \E p \in Pollers : LiveTakes(p)
    \/ \E p \in Pollers : LiveReturns(p)
    \/ \E p \in Pollers : LiveRuns(p)
    \/ \E p \in Pollers : LiveEmits(p)

StartLive == InitLive /\ CodecOff /\ LimiterOff /\ StatsOff /\ RingOff /\ CacheOff /\ OrderOff /\ SwapOff /\ ScheduleOff /\ SlidingOff /\ ConfirmOff /\ NeverCrashed

\* fair scheduling: the ticker fires and is served, and every poller takes its next
\* step when one stays possible
SpecLive ==
    /\ StartLive
    /\ [][NextLive]_vars
    /\ WF_vars(TickerFires)
    /\ WF_vars(TickServed)
    /\ \A p \in Pollers : WF_vars(PollerStep(p))

\* the transaction of place i of the feed has just been returned to poller p
Returned(p, i) ==
    /\ ppc[p] = "ring"
    /\ ti[p] = 1
    /\ \E k \in 1..Len(txs[p]) : txs[p][k] = Feed(p)[i]

\* it is in the ring and in the stats
Folded(p, i) ==
    /\ \E k \in 1..Len(monitorLogBuf) :
          monitorLogBuf[k].Affiliate = Aff(p) /\ monitorLogBuf[k].Tx = Feed(p)[i]
    /\ StartPos(p) + Added(p) >= i

\* the cursor file names it, or a later transaction, for the affiliate
Persisted(p, i) ==
    Position(Feed(p), CursorOf(diskCursors, Aff(p)).LastAddr,
                      CursorOf(diskCursors, Aff(p)).LastMemo) >= i

\* C38: under fair scheduling every poller issues a request to the explorer again
\* and again
C38_InfinitelyManyFetches == \A p \in Pollers : []<>(gpc[p] = "sending")

\* C38: a poller that waits for the rate token gets it, whatever the other pollers
\* consume meanwhile
C38_NoStarvation ==
    \A p \in Pollers : (gpc[p] = "waiting") ~> (gpc[p] = "sending")

\* C38: every transaction returned to a poller is folded into the ring and the
\* stats, and a cursor that covers it is written to the cursor file
C38_FoldedAndPersisted ==
    \A p \in Pollers : \A i \in 1..LiveHeld(p) :
        (i <= Len(Feed(p)) /\ Returned(p, i)) ~> (Folded(p, i) /\ Persisted(p, i))

====
